---- MODULE Spec2Model ----
(***************************************************************************)
(* The adapter between the IDE and the external granitectl tool            *)
(* (ide/src-tauri/src/main.rs): executable resolution, the process         *)
(* invoker with its timeout, the format negotiation of exec_sql and        *)
(* metadata, and the legacy text parsers.                                  *)
(*                                                                         *)
(* Text is modelled as a sequence of one-character strings, so that trim,  *)
(* contains, to_ascii_lowercase, split and parse are computed character by *)
(* character as the Rust code computes them.  Option<T> is <<>> for None   *)
(* and <<v>> for Some(v).                                                  *)
(***************************************************************************)
EXTENDS Integers, Sequences, FiniteSets, TLC

----------------------------------------------------------------------------
(* Bounds of the model *)

\* Number of concurrent request threads of the specification SpecConc.
NumThreads == 2

----------------------------------------------------------------------------
(* str primitives of the Rust standard library, as main.rs uses them *)

SetMin(S) == CHOOSE m \in S : \A n \in S : m <= n

SetMax(S) == CHOOSE m \in S : \A n \in S : m >= n

\* char::is_whitespace restricted to the ASCII characters of the model
IsWs(c) == c \in {" ", "\t", "\n", "\r"}

\* str::trim_start
trim_start(s) ==
    LET keep == {i \in 1..Len(s) : ~IsWs(s[i])}
    IN  IF keep = {} THEN <<>> ELSE SubSeq(s, SetMin(keep), Len(s))

\* str::trim_end
trim_end(s) ==
    LET keep == {i \in 1..Len(s) : ~IsWs(s[i])}
    IN  IF keep = {} THEN <<>> ELSE SubSeq(s, 1, SetMax(keep))

\* str::trim
trim(s) == trim_end(trim_start(s))

\* str::starts_with
starts_with(s, p) == Len(p) <= Len(s) /\ SubSeq(s, 1, Len(p)) = p

\* str::ends_with
ends_with(s, p) == Len(p) <= Len(s) /\ SubSeq(s, Len(s) - Len(p) + 1, Len(s)) = p

\* str::find: the 1-based position of the first occurrence of p, 0 when none
find(s, p) ==
    LET hits == {i \in 1..(Len(s) - Len(p) + 1) : SubSeq(s, i, i + Len(p) - 1) = p}
    IN  IF hits = {} THEN 0 ELSE SetMin(hits)

\* str::contains
contains(s, p) == find(s, p) # 0

\* str::strip_prefix, as an Option
strip_prefix(s, p) ==
    IF starts_with(s, p) THEN <<SubSeq(s, Len(p) + 1, Len(s))>> ELSE <<>>

\* str::strip_suffix, as an Option
strip_suffix(s, p) ==
    IF ends_with(s, p) THEN <<SubSeq(s, 1, Len(s) - Len(p))>> ELSE <<>>

\* str::split_once, as an Option of the pair <<before, after>>
split_once(s, p) ==
    LET i == find(s, p)
    IN  IF i = 0 THEN <<>>
        ELSE <<  <<SubSeq(s, 1, i - 1), SubSeq(s, i + Len(p), Len(s))>>  >>

\* str::split on one character: always at least one piece
RECURSIVE split(_, _)
split(s, c) ==
    LET i == find(s, <<c>>)
    IN  IF i = 0 THEN <<s>>
        ELSE <<SubSeq(s, 1, i - 1)>> \o split(SubSeq(s, i + 1, Len(s)), c)

\* str::lines: split at "\n", one "\r" before it dropped, no piece for the
\* text after a final line ending
lines(s) ==
    LET chomp(l) == IF ends_with(l, <<"\r">>) THEN SubSeq(l, 1, Len(l) - 1) ELSE l
        kept(pieces, n) ==
            [i \in 1..(IF pieces[n] = <<>> THEN n - 1 ELSE n) |->
                IF i < n THEN chomp(pieces[i]) ELSE pieces[i]]
        terminated(pieces) == kept(pieces, Len(pieces))
    IN  terminated(split(s, "\n"))

UpperCase == <<"A","B","C","D","E","F","G","H","I","J","K","L","M",
               "N","O","P","Q","R","S","T","U","V","W","X","Y","Z">>

LowerCase == <<"a","b","c","d","e","f","g","h","i","j","k","l","m",
               "n","o","p","q","r","s","t","u","v","w","x","y","z">>

\* str::to_ascii_lowercase
to_ascii_lowercase(s) ==
    [i \in 1..Len(s) |->
        IF \E k \in 1..26 : UpperCase[k] = s[i]
        THEN LowerCase[CHOOSE k \in 1..26 : UpperCase[k] = s[i]]
        ELSE s[i]]

\* Iterator::filter on a sequence
RECURSIVE SelectNonEmpty(_)
SelectNonEmpty(ls) ==
    IF ls = <<>> THEN <<>>
    ELSE (IF Head(ls) = <<>> THEN <<>> ELSE <<Head(ls)>>) \o SelectNonEmpty(Tail(ls))

----------------------------------------------------------------------------
(* String literals of main.rs *)

\* The error messages of the commands and of run_granitectl
Msg ==
    [ SqlEmpty |->   \* exec_sql, explain_sql, export_csv
          <<"S","Q","L"," ","m","u","s","t"," ","n","o","t"," ","b","e"," ","e","m","p","t","y">>,
      DbNotFound |->   \* open_db, exec_sql, explain_sql, metadata
          <<"D","a","t","a","b","a","s","e"," ","f","i","l","e"," ","n","o","t"," ","f","o","u",
            "n","d">>,
      DbExists |->   \* create_db
          <<"D","a","t","a","b","a","s","e"," ","f","i","l","e"," ","a","l","r","e","a","d","y",
            " ","e","x","i","s","t","s">>,
      NotFile |->   \* open_db
          <<"P","a","t","h"," ","m","u","s","t"," ","p","o","i","n","t"," ","t","o"," ","a"," ",
            "f","i","l","e">>,
      BadPath |->   \* to_str() of a path
          <<"D","a","t","a","b","a","s","e"," ","p","a","t","h"," ","c","o","n","t","a","i","n",
            "s"," ","u","n","s","u","p","p","o","r","t","e","d"," ","c","h","a","r","a","c","t",
            "e","r","s">>,
      UnableMeta |->   \* open_db, followed by the error
          <<"U","n","a","b","l","e"," ","t","o"," ","r","e","a","d"," ","m","e","t","a","d","a",
            "t","a",":"," ">>,
      UnableOpen |->   \* open_db, followed by the error
          <<"U","n","a","b","l","e"," ","t","o"," ","o","p","e","n"," ","d","a","t","a","b","a",
            "s","e",":"," ">>,
      ParentDir |->   \* create_db, followed by the error
          <<"U","n","a","b","l","e"," ","t","o"," ","c","r","e","a","t","e"," ","p","a","r","e",
            "n","t"," ","d","i","r","e","c","t","o","r","y",":"," ">>,
      ParseJson |->   \* exec_sql, followed by the error
          <<"F","a","i","l","e","d"," ","t","o"," ","p","a","r","s","e"," ","J","S","O","N"," ",
            "o","u","t","p","u","t",":"," ">>,
      UnsupportedFormat |->   \* exec_sql, followed by the format
          <<"U","n","s","u","p","p","o","r","t","e","d"," ","f","o","r","m","a","t"," ">>,
      NoMetadata |->   \* metadata
          <<"g","r","a","n","i","t","e","c","t","l"," ","r","e","t","u","r","n","e","d"," ","n",
            "o"," ","m","e","t","a","d","a","t","a">>,
      NotJson |->   \* metadata, followed by the trimmed output
          <<"g","r","a","n","i","t","e","c","t","l"," ","m","e","t","a","d","a","t","a"," ","o",
            "u","t","p","u","t"," ","w","a","s"," ","n","o","t"," ","J","S","O","N",":"," ">>,
      WriteCsv |->   \* export_csv, followed by the error
          <<"F","a","i","l","e","d"," ","t","o"," ","w","r","i","t","e"," ","C","S","V",":"," ">>,
      TimedOut |->   \* run_granitectl
          <<"g","r","a","n","i","t","e","c","t","l"," ","t","i","m","e","d"," ","o","u","t">>,
      Await |->   \* run_granitectl, followed by the error
          <<"F","a","i","l","e","d"," ","t","o"," ","a","w","a","i","t"," ","g","r","a","n","i",
            "t","e","c","t","l",":"," ">>,
      Read |->   \* run_granitectl, followed by the error
          <<"F","a","i","l","e","d"," ","t","o"," ","r","e","a","d"," ","g","r","a","n","i","t",
            "e","c","t","l"," ","o","u","t","p","u","t",":"," ">>,
      Generic |->   \* run_granitectl
          <<"g","r","a","n","i","t","e","c","t","l"," ","r","e","t","u","r","n","e","d"," ","a",
            "n"," ","e","r","r","o","r">>,
      Run |->   \* run_granitectl, followed by the error
          <<"F","a","i","l","e","d"," ","t","o"," ","r","u","n"," ","g","r","a","n","i","t","e",
            "c","t","l",":"," ">>,
      MissingAt |->   \* missing_granitectl_message, followed by the path
          <<"g","r","a","n","i","t","e","c","t","l"," ","e","x","e","c","u","t","a","b","l","e",
            " ","n","o","t"," ","f","o","u","n","d"," ","a","t"," ">>,
      MissingEnvTail |->   \* missing_granitectl_message, source Environment
          <<"."," ","U","p","d","a","t","e"," ","G","R","A","N","I","T","E","C","T","L","_","P",
            "A","T","H"," ","o","r"," ","b","u","i","l","d"," ","t","h","e"," ","e","n","g","i",
            "n","e",".">>,
      MissingDefaultTail |->   \* missing_granitectl_message, source Default
          <<"."," ","B","u","i","l","d"," ","t","h","e"," ","e","n","g","i","n","e"," ","o","r",
            " ","s","e","t"," ","G","R","A","N","I","T","E","C","T","L","_","P","A","T","H",".">>,
      MissingSystem |->   \* missing_granitectl_message, source System
          <<"g","r","a","n","i","t","e","c","t","l"," ","e","x","e","c","u","t","a","b","l","e",
            " ","w","a","s"," ","n","o","t"," ","f","o","u","n","d"," ","o","n"," ","P","A","T",
            "H","."," ","B","u","i","l","d"," ","t","h","e"," ","e","n","g","i","n","e"," ","o",
            "r"," ","s","e","t"," ","G","R","A","N","I","T","E","C","T","L","_","P","A","T","H",
            ".">>,
      VersionFailed |->   \* granitectl_info, followed by the error
          <<"F","a","i","l","e","d"," ","t","o"," ","r","u","n"," ","g","r","a","n","i","t","e",
            "c","t","l"," ","-","-","v","e","r","s","i","o","n",":"," ">> ]

\* The error messages of the legacy parsers
ParseMsg ==
    [ NoOutput |->   \* parse_legacy_exec_output
          <<"g","r","a","n","i","t","e","c","t","l"," ","r","e","t","u","r","n","e","d"," ","n",
            "o"," ","o","u","t","p","u","t">>,
      UnexpectedTable |->   \* parse_legacy_exec_output
          <<"u","n","e","x","p","e","c","t","e","d"," ","t","a","b","l","e"," ","o","u","t","p",
            "u","t">>,
      MissingColumns |->   \* parse_legacy_exec_output
          <<"m","i","s","s","i","n","g"," ","c","o","l","u","m","n"," ","d","e","f","i","n","i",
            "t","i","o","n","s">>,
      RowMismatch |->   \* parse_legacy_exec_output
          <<"r","o","w"," ","c","o","l","u","m","n"," ","c","o","u","n","t"," ","m","i","s","m",
            "a","t","c","h">>,
      BadHeader |->   \* parse_legacy_metadata, followed by the line
          <<"u","n","e","x","p","e","c","t","e","d"," ","t","a","b","l","e"," ","h","e","a","d",
            "e","r",":"," ">>,
      BadRowCount |->   \* parse_legacy_metadata, followed by the line
          <<"u","n","e","x","p","e","c","t","e","d"," ","r","o","w"," ","c","o","u","n","t",":",
            " ">>,
      InvalidRowCount |->   \* parse_legacy_metadata, followed by the line
          <<"i","n","v","a","l","i","d"," ","r","o","w"," ","c","o","u","n","t"," ","i","n"," ",
            "l","i","n","e",":"," ">>,
      BadColumn |->   \* parse_legacy_column, followed by the line
          <<"u","n","e","x","p","e","c","t","e","d"," ","c","o","l","u","m","n"," ","l","i","n",
            "e",":"," ">>,
      BadIndex |->   \* parse_legacy_index, followed by the line
          <<"u","n","e","x","p","e","c","t","e","d"," ","i","n","d","e","x"," ","l","i","n","e",
            ":"," ">>,
      BadFk |->   \* parse_legacy_fk, followed by the line
          <<"u","n","e","x","p","e","c","t","e","d"," ","f","o","r","e","i","g","n"," ","k","e",
            "y"," ","l","i","n","e",":"," ">> ]

PhraseUnknownFormat ==
    <<"u","n","k","n","o","w","n"," ","f","o","r","m","a","t">>

PhraseJsonOnly ==
    <<"j","s","o","n"," ","f","o","r","m","a","t"," ","i","s"," ","o","n","l","y"," ","s","u",
      "p","p","o","r","t","e","d">>

PhraseUnknownCommand ==
    <<"u","n","k","n","o","w","n"," ","c","o","m","m","a","n","d">>

ExeName ==
    <<"g","r","a","n","i","t","e","c","t","l">>

EXE_SUFFIX ==
    <<>>

EngineDir ==
    <<"e","n","g","i","n","e">>

ParentDir ==
    <<".",".">>

RowsSuffix ==
    <<"r","o","w","(","s",")">>

SpaceRowsSuffix ==
    <<" ","r","o","w","(","s",")">>

\* The line of an empty database written in lower case
SentinelLowerCase ==
    <<"n","o"," ","t","a","b","l","e","s"," ","d","e","f","i","n","e","d">>

SentinelNoTables ==
    <<"N","o"," ","t","a","b","l","e","s"," ","d","e","f","i","n","e","d">>

TablePrefix ==
    <<"T","a","b","l","e"," ">>

\* The marker of the indexes without its indent
IndexesMarkerUnindented ==
    <<"I","n","d","e","x","e","s",":">>

IndexesMarker ==
    <<" "," ","I","n","d","e","x","e","s",":">>

ForeignKeysMarker ==
    <<" "," ","F","o","r","e","i","g","n"," ","K","e","y","s",":">>

\* The indent of a column without its dash
ColumnPrefixUndashed ==
    <<" "," ">>

ColumnPrefix ==
    <<" "," ","-"," ">>

EntryPrefix ==
    <<" "," "," "," ","-"," ">>

NotNullMarker ==
    <<" ","N","O","T"," ","N","U","L","L">>

PrimaryKeyMarker ==
    <<" ","P","R","I","M","A","R","Y"," ","K","E","Y">>

UniqueSuffix ==
    <<" ","U","N","I","Q","U","E">>

ReferencesSep ==
    <<")"," ","R","E","F","E","R","E","N","C","E","S"," ">>

SpaceParen ==
    <<" ","(">>

----------------------------------------------------------------------------
(* Result<T, String> and the inputs of the model *)

\* Ok(v)
Ok(v) == [ok |-> TRUE, val |-> <<v>>, err |-> <<>>]

\* Err(e)
Err(e) == [ok |-> FALSE, val |-> <<>>, err |-> e]

\* Values of the GRANITECTL_PATH variable, as Option<OsString>
EnvValues ==
    {
      \* unset
      <<>>,
      \* set to the empty string
      << <<>> >>,
      \* an ordinary path
      << <<"/","o","p","t","/","g","c","t","l">> >>,
      \* a path whose directory names hold the fallback phrases
      << <<"/","u","n","k","n","o","w","n"," ","f","o","r","m","a","t","/","u","n","k","n","o","w",
        "n"," ","c","o","m","m","a","n","d","/","g">> >>
    }

\* Results of std::env::current_exe(), as Option<PathBuf> (None for Err)
CurrentExeValues ==
    {
      \* the location of the running program is not known
      <<>>,
      \* the installed program
      << <<"/","a","p","p","/","b","i","n","/","i","d","e">> >>
    }

\* The sql argument of a request
SqlTexts ==
    {
      \* empty
      <<>>,
      \* whitespace only
      <<" ","\n">>,
      \* a statement
      <<"S","E","L","E","C","T"," ","1">>
    }

\* The format argument of exec_sql
FormatTexts ==
    {
      \* structured rows
      <<"j","s","o","n","R","o","w","s">>,
      \* text table
      <<"t","a","b","l","e">>,
      \* csv
      <<"c","s","v">>,
      \* no format of the program
      <<"x","m","l">>
    }

\* Standard output of the child process, by the subcommand it was started for
ChildStdouts ==
    [ exec_json |->
        {
          \* nothing
          <<>>,
          \* a QueryResultPayload in JSON
          <<"{","\"","c","o","l","u","m","n","s","\"",":","[","]",",","\"","r","o","w","s","\"",
            ":","[","]",",","\"","d","u","r","a","t","i","o","n","M","s","\"",":","0","}">>,
          \* JSON that is no QueryResultPayload and holds a rejection phrase
          <<"{","\"","e","r","r","o","r","\"",":","\"","u","n","k","n","o","w","n"," ","f","o",
            "r","m","a","t","\"","}">>,
          \* a rejection printed on standard output
          <<"j","s","o","n"," ","f","o","r","m","a","t"," ","i","s"," ","o","n","l","y"," ","s",
            "u","p","p","o","r","t","e","d"," ","i","n"," ","a"," ","n","e","w","e","r"," ","g",
            "r","a","n","i","t","e","c","t","l","\n">>
        },
      exec_table |->
        {
          \* nothing
          <<>>,
          \* a table
          <<"i","d"," ","|"," ","n","m","\n","-","-","-","+","-","-","-","\n","1"," ","|"," ",
            "a","\n","(","1"," ","r","o","w","(","s",")",")","\n">>,
          \* a status line
          <<"3"," ","r","o","w","(","s",")"," ","i","n","s","e","r","t","e","d","\n">>,
          \* a table with a short row
          <<"i","d"," ","|"," ","n","m","\n","-","-","-","+","-","-","-","\n","1","\n">>
        },
      exec_csv |->
        {
          \* nothing
          <<>>,
          \* csv
          <<"i","d",",","n","m","\n","1",",","a","\n">>,
          \* csv with a byte that is not UTF-8, written 0xFF
          <<"i","d","\n","0xFF","\n">>
        },
      explain |->
        {
          \* nothing
          <<>>,
          \* a plan in JSON
          <<"{","\"","p","l","a","n","\"",":","[","]","}">>
        },
      meta |->
        {
          \* nothing
          <<>>,
          \* whitespace only
          <<" ","\n">>,
          \* JSON
          <<"{","\"","t","a","b","l","e","s","\"",":","[","]","}">>,
          \* JSON after leading whitespace
          <<" ","\n","[","{","\"","t","a","b","l","e","s","\"",":","[","]","}","]">>,
          \* the old tool's complaint, printed on standard output
          <<" ","u","n","k","n","o","w","n"," ","c","o","m","m","a","n","d",":"," ","m","e","t",
            "a"," ","\n">>,
          \* text that is neither JSON nor the complaint
          <<" ","U","n","k","n","o","w","n"," ","C","o","m","m","a","n","d"," ","{","m","e","t",
            "a","}","\n">>
        },
      dump |->
        {
          \* nothing
          <<>>,
          \* one table
          <<"T","a","b","l","e"," ","t"," ","(","2"," ","r","o","w","(","s",")",")","\n"," ",
            " ","-"," ","i","d"," ","I","N","T"," ","N","O","T"," ","N","U","L","L"," ","P","R",
            "I","M","A","R","Y"," ","K","E","Y","\n"," "," ","I","n","d","e","x","e","s",":",
            "\n"," "," "," "," ","-"," ","i","x"," ","(","i","d",")"," ","U","N","I","Q","U",
            "E","\n">>,
          \* an empty database
          <<"N","o"," ","t","a","b","l","e","s"," ","d","e","f","i","n","e","d","\n">>,
          \* a malformed header
          <<"T","a","b","l","e"," ","t","\n">>
        },
      new |->
        {
          \* nothing
          <<>>
        },
      version |->
        {
          \* nothing
          <<>>,
          \* a version line
          <<" ","g","r","a","n","i","t","e","c","t","l"," ","0",".","1","\n">>
        } ]

\* Standard error of the child process
Stderrs ==
    {
      \* nothing
      <<>>,
      \* whitespace only
      <<" ","\n">>,
      \* an error, with whitespace around it
      <<" ","b","o","o","m","\n">>,
      \* format rejected, mixed case
      <<"E","r","r","o","r",":"," ","U","n","k","n","o","w","n"," ","F","o","r","m","a","t"," ",
        "j","s","o","n","\n">>,
      \* format rejected, second phrasing
      <<"J","S","O","N"," ","f","o","r","m","a","t"," ","i","s"," ","o","n","l","y"," ","s","u",
        "p","p","o","r","t","e","d","\n">>,
      \* subcommand rejected
      <<"u","n","k","n","o","w","n"," ","c","o","m","m","a","n","d",":"," ","m","e","t","a","\n">>,
      \* subcommand rejected, capitalised
      <<"U","n","k","n","o","w","n"," ","c","o","m","m","a","n","d","\n">>
    }

\* What the child can have written to its standard output when the wait ends
\* without its exit
PartialStdouts ==
    { <<>>, <<"i","d"," ","|"," ","n","m","\n">> }

\* Standard output of a child that exits with a failure status
FailureStdouts ==
    { <<"i","d"," ","|"," ","n","m","\n">> }

\* Standard error of a child that exits with success
SuccessStderrs ==
    { <<>>,
      <<"w","a","r","n","i","n","g",":"," ","u","n","k","n","o","w","n"," ","f","o","r","m","a","t",","," ","u","n","k","n","o","w","n"," ","c","o","m","m","a","n","d","\n">> }

\* Path of the database file a request names
DbPath == <<"/","d","/","a",".","d","b">>

\* Text of an operating-system error (Display of std::io::Error)
OsError ==
    <<"P","e","r","m","i","s","s","i","o","n"," ","d","e","n","i","e","d"," ","(","o","s"," ",
      "e","r","r","o","r"," ","1","3",")">>

\* Elapsed wall-clock times of the legacy invocation, in milliseconds
Durations == {0, 7}

\* const QUERY_TIMEOUT: Duration = Duration::from_secs(60), in seconds
QUERY_TIMEOUT == 60

\* How long a child runs, in seconds
ChildSeconds == {1, 61}

----------------------------------------------------------------------------
(* Executable resolution and its messages *)

\* Path::parent, as an Option
path_parent(p) ==
    IF p = <<>> \/ p = <<"/">> THEN <<>>
    ELSE LET slashes == {i \in 1..Len(p) : p[i] = "/"}
         IN  IF slashes = {} THEN << <<>> >>
             ELSE IF SetMax(slashes) = 1 THEN << <<"/">> >>
             ELSE << SubSeq(p, 1, SetMax(slashes) - 1) >>

\* Path::join
path_join(p, c) ==
    IF starts_with(c, <<"/">>) THEN c
    ELSE IF p = <<>> \/ ends_with(p, <<"/">>) THEN p \o c
    ELSE p \o <<"/">> \o c

\* granitectl_resolution without the test !path.is_empty(): what property C9
\* tells from the code
granitectl_resolution_any_override(envPath, currentExe) ==
    IF envPath # <<>>
    THEN [path |-> envPath[1], source |-> "Environment"]
    ELSE IF currentExe # <<>> /\ path_parent(currentExe[1]) # <<>>
    THEN [path |-> path_join(path_join(path_join(path_parent(currentExe[1])[1],
                                                 ParentDir), EngineDir),
                             ExeName \o EXE_SUFFIX),
          source |-> "Default"]
    ELSE [path |-> ExeName \o EXE_SUFFIX, source |-> "System"]

\* granitectl_resolution: (path, source) from GRANITECTL_PATH and current_exe()
granitectl_resolution(envPath, currentExe) ==
    IF envPath # <<>> /\ envPath[1] # <<>>
    THEN [path |-> envPath[1], source |-> "Environment"]
    ELSE LET exe_name == ExeName \o EXE_SUFFIX
         IN  IF currentExe # <<>> /\ path_parent(currentExe[1]) # <<>>
             THEN [path |-> path_join(path_join(path_join(path_parent(currentExe[1])[1],
                                                         ParentDir), EngineDir), exe_name),
                   source |-> "Default"]
             ELSE [path |-> exe_name, source |-> "System"]

\* missing_granitectl_message
missing_granitectl_message(path, source) ==
    CASE source = "Environment" -> Msg.MissingAt \o path \o Msg.MissingEnvTail
      [] source = "Default"     -> Msg.MissingAt \o path \o Msg.MissingDefaultTail
      [] source = "System"      -> Msg.MissingSystem

\* is_unknown_format_error without to_ascii_lowercase: what property C1 tells
\* from the code
is_unknown_format_error_exact(message) ==
    contains(message, PhraseUnknownFormat) \/ contains(message, PhraseJsonOnly)

\* is_unknown_format_error
is_unknown_format_error(message) ==
    LET lower == to_ascii_lowercase(message)
    IN  contains(lower, PhraseUnknownFormat) \/ contains(lower, PhraseJsonOnly)

\* looks_like_json without trim_start: what property C4 tells from the code
looks_like_json_untrimmed(output) ==
    output # <<>> /\ output[1] \in {"{", "["}

\* looks_like_json
looks_like_json(output) ==
    LET trimmed == trim_start(output)
    IN  trimmed # <<>> /\ trimmed[1] \in {"{", "["}

----------------------------------------------------------------------------
(* Unsigned 64-bit integers.  A u64 is kept in decimal, as its digits       *)
(* without leading zeros, so that the whole range of the type is there.     *)

DigitChars == <<"0","1","2","3","4","5","6","7","8","9">>

\* char::is_ascii_digit
is_ascii_digit(c) == \E k \in 1..10 : DigitChars[k] = c

DigitValue(c) == (CHOOSE k \in 1..10 : DigitChars[k] = c) - 1

\* u64::MAX, 18446744073709551615
U64MaxDigits ==
    <<"1","8","4","4","6","7","4","4","0","7","3","7","0","9","5","5","1","6","1","5">>

\* a <= b for two digit texts of the same length
RECURSIVE DigitsLeq(_, _)
DigitsLeq(a, b) ==
    IF a = <<>> THEN TRUE
    ELSE IF Head(a) = Head(b) THEN DigitsLeq(Tail(a), Tail(b))
    ELSE DigitValue(Head(a)) < DigitValue(Head(b))

\* the digits of a u64 without its leading zeros
StripZeros(ds) ==
    LET nz == {i \in 1..Len(ds) : ds[i] # "0"}
    IN  IF nz = {} THEN <<"0">> ELSE SubSeq(ds, SetMin(nz), Len(ds))

\* str::parse::<u64>, as an Option: an optional "+", then one or more digits,
\* and a value that fits 64 bits
parse_u64(s) ==
    LET body == IF starts_with(s, <<"+">>) THEN Tail(s) ELSE s
    IN  IF body = <<>> \/ \E i \in 1..Len(body) : ~is_ascii_digit(body[i]) THEN <<>>
        ELSE LET v == StripZeros(body)
             IN  IF Len(v) > 20 \/ (Len(v) = 20 /\ ~DigitsLeq(v, U64MaxDigits))
                 THEN <<>>
                 ELSE <<v>>

\* usize as u64, and Display of an unsigned integer
RECURSIVE to_u64(_)
to_u64(n) ==
    IF n < 10 THEN <<DigitChars[n + 1]>>
    ELSE to_u64(n \div 10) \o <<DigitChars[(n % 10) + 1]>>

\* count >= 0, which holds of every u64: what a test of count > 0 that was
\* left out would let through
u64_any(v) == v = v

\* count > 0
u64_positive(v) == v # <<"0">>

----------------------------------------------------------------------------
(* The legacy exec-output parser *)

\* serde_json::from_str::<QueryResultPayload>: the payloads of the model's
\* inputs that deserialize, anything else is an error of the library
serde_from_str(body) ==
    IF body = <<"{","\"","c","o","l","u","m","n","s","\"",":","[","]",",","\"","r","o","w","s",
                "\"",":","[","]",",","\"","d","u","r","a","t","i","o","n","M","s","\"",":","0","}">>
    THEN Ok([columns |-> <<>>, rows |-> <<>>, duration_ms |-> 0,
             rows_affected |-> <<>>, message |-> <<>>])
    ELSE Err(<<"e","x","p","e","c","t","e","d"," ","v","a","l","u","e">>)

\* split_table_row
split_table_row(line) ==
    LET cells == split(line, "|")
    IN  [i \in 1..Len(cells) |-> trim(cells[i])]

\* parse_row_count_line, as an Option<u64>
parse_row_count_line(line) ==
    LET counted(parts) ==
            IF parts = <<>> THEN <<>>
            ELSE IF parts[1][2] # RowsSuffix THEN <<>>
            ELSE parse_u64(parts[1][1])
        inner(without_suffix) ==
            IF without_suffix = <<>> THEN <<>>
            ELSE counted(split_once(without_suffix[1], <<" ">>))
        opened(without_prefix) ==
            IF without_prefix = <<>> THEN <<>>
            ELSE inner(strip_suffix(without_prefix[1], <<")">>))
    IN  opened(strip_prefix(trim(line), <<"(">>))

\* extract_rows_affected reading only the digits the message begins with: what
\* property C14 tells from the code
extract_rows_affected_leading(message) ==
    LET positive(value) ==
            IF value # <<>> /\ u64_positive(value[1]) THEN value ELSE <<>>
        run(stops) ==
            positive(parse_u64(SubSeq(message, 1,
                               IF stops = {} THEN Len(message) ELSE SetMin(stops) - 1)))
    IN  IF message = <<>> \/ ~is_ascii_digit(message[1]) THEN <<>>
        ELSE run({i \in 1..Len(message) : ~is_ascii_digit(message[i])})

\* extract_rows_affected, as an Option<u64>: the first run of digits of the
\* message, kept when it parses to a value above zero
extract_rows_affected(message) ==
    LET positive(value) ==
            IF value # <<>> /\ u64_positive(value[1]) THEN value ELSE <<>>
        run(first, stops) ==
            positive(parse_u64(SubSeq(message, first,
                               IF stops = {} THEN Len(message) ELSE SetMin(stops) - 1)))
        from(first) ==
            run(first, {i \in first..Len(message) : ~is_ascii_digit(message[i])})
        digits(ds) == IF ds = {} THEN <<>> ELSE from(SetMin(ds))
    IN  digits({i \in 1..Len(message) : is_ascii_digit(message[i])})

\* the data rows taken as they come, whatever the number of their cells
collect_rows_unchecked(ls, ncols) ==
    Ok([i \in 1..Len(ls) |-> split_table_row(ls[i])])

\* the data rows of parse_legacy_exec_output: Err at the first row whose cell
\* count differs from the header's
RECURSIVE collect_rows(_, _)
collect_rows(ls, ncols) ==
    LET push(values, rest) ==
            IF rest.ok THEN Ok(<<values>> \o rest.val[1]) ELSE rest
        row(values) ==
            IF Len(values) # ncols THEN Err(ParseMsg.RowMismatch)
            ELSE push(values, collect_rows(Tail(ls), ncols))
    IN  IF ls = <<>> THEN Ok(<<>>) ELSE row(split_table_row(Head(ls)))

\* parse_legacy_exec_output
parse_legacy_exec_output(output, duration) ==
    LET table(columns, rows, n, rows_affected, message) ==
            Ok([columns |-> columns, rows |-> rows, duration_ms |-> duration,
                rows_affected |->
                    IF rows_affected # <<>> THEN rows_affected
                    ELSE IF n > 0 THEN <<to_u64(n)>>
                    ELSE <<>>,
                message |->
                    IF rows_affected # <<>> \/ message # <<>> THEN message
                    ELSE <<to_u64(n) \o SpaceRowsSuffix>>])
        collected(columns, data, rows_affected, message) ==
            IF ~data.ok THEN data
            ELSE table(columns, data.val[1], Len(data.val[1]), rows_affected, message)
        headed(ls, columns, rows_affected, message) ==
            IF columns = <<>> THEN Err(ParseMsg.MissingColumns)
            ELSE collected(columns, collect_rows(SubSeq(ls, 3, Len(ls)), Len(columns)),
                           rows_affected, message)
        body(ls, rows_affected, message) ==
            IF Len(ls) < 2 THEN Err(ParseMsg.UnexpectedTable)
            ELSE headed(ls, split_table_row(ls[1]), rows_affected, message)
        counted(all, count) ==
            body(IF count # <<>> THEN SubSeq(all, 1, Len(all) - 1) ELSE all,
                 IF count # <<>> /\ u64_positive(count[1]) THEN count ELSE <<>>,
                 IF count # <<>> THEN <<count[1] \o SpaceRowsSuffix>> ELSE <<>>)
        single(message) ==
            Ok([columns |-> <<>>, rows |-> <<>>, duration_ms |-> duration,
                rows_affected |-> extract_rows_affected(message),
                message |-> <<message>>])
        parse(all) ==
            IF all = <<>> THEN Err(ParseMsg.NoOutput)
            ELSE IF Len(all) = 1 /\ ~starts_with(all[1], <<"(">>)
            THEN single(trim(all[1]))
            ELSE counted(all, parse_row_count_line(all[Len(all)]))
        non_empty(raw) == SelectNonEmpty([i \in 1..Len(raw) |-> trim_end(raw[i])])
    IN  parse(non_empty(lines(output)))
----------------------------------------------------------------------------
(* The legacy metadata parser *)

\* str::trim_end_matches(')')
trim_end_matches_paren(s) ==
    LET keep == {i \in 1..Len(s) : s[i] # ")"}
    IN  IF keep = {} THEN <<>> ELSE SubSeq(s, 1, SetMax(keep))

\* split(',') with every piece trimmed and the empty pieces dropped
split_columns(s) ==
    LET pieces == split(s, ",")
    IN  SelectNonEmpty([i \in 1..Len(pieces) |-> trim(pieces[i])])

\* parse_legacy_column cutting the rest once, at ' NOT NULL' when it is there
\* and at ' PRIMARY KEY' otherwise
parse_legacy_column_one_cut(line) ==
    LET before(rest, i) == IF i # 0 THEN SubSeq(rest, 1, i - 1) ELSE rest
        cut(rest, marker) == before(rest, find(rest, marker))
        column(parts, not_null, primary) ==
            IF parts = <<>> THEN Err(ParseMsg.BadColumn \o line)
            ELSE Ok([name |-> parts[1][1], column_type |-> trim(parts[1][2]),
                     not_null |-> not_null, primary |-> primary])
        flagged(rest) ==
            column(split_once(IF contains(rest, NotNullMarker) THEN cut(rest, NotNullMarker)
                              ELSE cut(rest, PrimaryKeyMarker), <<" ">>),
                   contains(rest, NotNullMarker), contains(rest, PrimaryKeyMarker))
    IN  flagged(trim(line))

\* parse_legacy_column taking the first ' NOT NULL' and the first
\* ' PRIMARY KEY' out of the rest and keeping what follows them
parse_legacy_column_markers_removed(line) ==
    LET without(rest, i, marker) ==
            IF i # 0 THEN SubSeq(rest, 1, i - 1) \o SubSeq(rest, i + Len(marker), Len(rest))
            ELSE rest
        removed(rest, marker) == without(rest, find(rest, marker), marker)
        column(parts, not_null, primary) ==
            IF parts = <<>> THEN Err(ParseMsg.BadColumn \o line)
            ELSE Ok([name |-> parts[1][1], column_type |-> trim(parts[1][2]),
                     not_null |-> not_null, primary |-> primary])
        flagged(rest) ==
            column(split_once(removed(removed(rest, NotNullMarker), PrimaryKeyMarker), <<" ">>),
                   contains(rest, NotNullMarker), contains(rest, PrimaryKeyMarker))
    IN  flagged(trim(line))

\* parse_legacy_column
parse_legacy_column(line) ==
    LET before(rest, i) == IF i # 0 THEN SubSeq(rest, 1, i - 1) ELSE rest
        cut(rest, marker) == before(rest, find(rest, marker))
        column(parts, not_null, primary) ==
            IF parts = <<>> THEN Err(ParseMsg.BadColumn \o line)
            ELSE Ok([name |-> parts[1][1], column_type |-> trim(parts[1][2]),
                     not_null |-> not_null, primary |-> primary])
        flagged(rest) ==
            column(split_once(cut(cut(rest, NotNullMarker), PrimaryKeyMarker), <<" ">>),
                   contains(rest, NotNullMarker), contains(rest, PrimaryKeyMarker))
    IN  flagged(trim(line))

\* parse_legacy_index
parse_legacy_index(line) ==
    LET index(parts, unique) ==
            IF parts = <<>> THEN Err(ParseMsg.BadIndex \o line)
            ELSE Ok([name |-> trim(parts[1][1]),
                     columns |-> split_columns(trim_end_matches_paren(parts[1][2])),
                     unique |-> unique])
        based(trimmed, stripped) ==
            index(split_once(IF stripped # <<>> THEN trim_end(stripped[1]) ELSE trimmed,
                             SpaceParen),
                  stripped # <<>>)
        suffixed(trimmed) == based(trimmed, strip_suffix(trimmed, UniqueSuffix))
    IN  suffixed(trim(line))

\* parse_legacy_fk
parse_legacy_fk(line) ==
    LET fk(p1, p2, p3) ==
            IF p3 = <<>> THEN Err(ParseMsg.BadFk \o line)
            ELSE Ok([name |-> trim(p1[1][1]),
                     columns |-> split_columns(p2[1][1]),
                     ref_table |-> trim(p3[1][1]),
                     ref_columns |-> split_columns(trim_end_matches_paren(p3[1][2]))])
        referenced(p1, p2) ==
            IF p2 = <<>> THEN Err(ParseMsg.BadFk \o line)
            ELSE fk(p1, p2, split_once(p2[1][2], <<"(">>))
        named(p1) ==
            IF p1 = <<>> THEN Err(ParseMsg.BadFk \o line)
            ELSE referenced(p1, split_once(p1[1][2], ReferencesSep))
    IN  named(split_once(line, SpaceParen))

\* The conversion with the two sections always present, empty ones too
into_legacy_table_sections_kept(builder) ==
    [name |-> builder.name,
     row_count |-> builder.row_count,
     columns |-> builder.columns,
     indexes |-> <<builder.indexes>>,
     fks |-> <<builder.fks>>]

\* impl From<LegacyTableBuilder> for LegacyTable
into_legacy_table(builder) ==
    [name |-> builder.name,
     row_count |-> builder.row_count,
     columns |-> builder.columns,
     indexes |-> IF builder.indexes = <<>> THEN <<>> ELSE <<builder.indexes>>,
     fks |-> IF builder.fks = <<>> THEN <<>> ELSE <<builder.fks>>]

\* A header that takes whatever follows the name for a count of 0: what
\* parse_table_header would be without its checks of the count
parse_table_header_count_unchecked(line, rest) ==
    LET named(p1) ==
            IF p1 = <<>> THEN Err(ParseMsg.BadHeader \o line)
            ELSE Ok([name |-> p1[1][1], row_count |-> <<"0">>,
                     columns |-> <<>>, indexes |-> <<>>, fks |-> <<>>])
    IN  named(split_once(rest, SpaceParen))

\* the header of a table, 'Table <name> (<count> row(s))': the new builder
parse_table_header(line, rest) ==
    LET builder(name, row_count) ==
            IF row_count = <<>> THEN Err(ParseMsg.InvalidRowCount \o line)
            ELSE Ok([name |-> name, row_count |-> row_count[1],
                     columns |-> <<>>, indexes |-> <<>>, fks |-> <<>>])
        counted(name, s2) ==
            IF s2 = <<>> THEN Err(ParseMsg.BadRowCount \o line)
            ELSE builder(name, parse_u64(s2[1]))
        closed(name, s1) ==
            counted(name, IF s1 = <<>> THEN <<>> ELSE strip_suffix(s1[1], SpaceRowsSuffix))
        named(p1) ==
            IF p1 = <<>> THEN Err(ParseMsg.BadHeader \o line)
            ELSE closed(p1[1][1], strip_suffix(p1[1][2], <<")">>))
    IN  named(split_once(rest, SpaceParen))

\* The state of the loop of parse_legacy_metadata before its first line.
\* result is the Option of an early return.
LegacyMetaStart ==
    [tables |-> <<>>, current |-> <<>>, section |-> "Columns", result |-> <<>>]

\* One iteration of the loop of parse_legacy_metadata
legacy_meta_line(st, raw_line) ==
    LET flushed == IF st.current # <<>>
                   THEN Append(st.tables, into_legacy_table(st.current[1]))
                   ELSE st.tables
        started(header) ==
            IF ~header.ok
            THEN [tables |-> flushed, current |-> <<>>, section |-> st.section,
                  result |-> <<header>>]
            ELSE [tables |-> flushed, current |-> header.val, section |-> "Columns",
                  result |-> <<>>]
        pushed(table, entry) ==
            IF ~entry.ok THEN [st EXCEPT !.result = <<entry>>]
            ELSE [st EXCEPT !.current = <<
                    CASE st.section = "Columns" ->
                           [table EXCEPT !.columns = Append(@, entry.val[1])]
                      [] st.section = "Indexes" ->
                           [table EXCEPT !.indexes = Append(@, entry.val[1])]
                      [] st.section = "ForeignKeys" ->
                           [table EXCEPT !.fks = Append(@, entry.val[1])] >>]
        listed(rest) ==
            IF rest = <<>> THEN st
            ELSE pushed(st.current[1],
                        CASE st.section = "Columns" -> parse_legacy_column(rest[1])
                          [] st.section = "Indexes" -> parse_legacy_index(rest[1])
                          [] st.section = "ForeignKeys" -> parse_legacy_fk(rest[1]))
        step(line, heading) ==
            IF line = <<>> THEN st
            ELSE IF line = SentinelNoTables
            THEN [st EXCEPT !.result = <<Ok([tables |-> <<>>])>>]
            ELSE IF heading # <<>> THEN started(parse_table_header(line, heading[1]))
            ELSE IF st.current = <<>> THEN st
            ELSE IF line = IndexesMarker THEN [st EXCEPT !.section = "Indexes"]
            ELSE IF line = ForeignKeysMarker THEN [st EXCEPT !.section = "ForeignKeys"]
            ELSE listed(strip_prefix(line, IF st.section = "Columns" THEN ColumnPrefix
                                           ELSE EntryPrefix))
        trimmed(line) == step(line, strip_prefix(line, TablePrefix))
    IN  trimmed(trim_end(raw_line))

\* the loop of parse_legacy_metadata over the lines left
RECURSIVE legacy_meta_loop(_, _)
legacy_meta_loop(st, ls) ==
    IF st.result # <<>> \/ ls = <<>> THEN st
    ELSE legacy_meta_loop(legacy_meta_line(st, Head(ls)), Tail(ls))

\* parse_legacy_metadata, before the encoding: Result<LegacyMetadata, String>
legacy_metadata_value(output) ==
    LET finish(st) ==
            IF st.result # <<>> THEN st.result[1]
            ELSE Ok([tables |-> IF st.current # <<>>
                                THEN Append(st.tables, into_legacy_table(st.current[1]))
                                ELSE st.tables])
    IN  finish(legacy_meta_loop(LegacyMetaStart, lines(output)))

----------------------------------------------------------------------------
(* serde_json::to_string of the legacy metadata *)

\* a JSON string literal: the text quoted, with its quotes, backslashes and
\* control characters escaped
json_string(s) ==
    LET esc(c) == CASE c = "\"" -> <<"\\", "\"">>
                    [] c = "\\" -> <<"\\", "\\">>
                    [] c = "\n" -> <<"\\", "n">>
                    [] c = "\t" -> <<"\\", "t">>
                    [] c = "\r" -> <<"\\", "r">>
                    [] OTHER    -> <<c>>
        F[i \in 0..Len(s)] == IF i = 0 THEN <<>> ELSE F[i - 1] \o esc(s[i])
    IN  <<"\"">> \o F[Len(s)] \o <<"\"">>

\* a JSON array of already encoded items
json_array(items) ==
    LET F[i \in 0..Len(items)] ==
            IF i = 0 THEN <<>>
            ELSE F[i - 1] \o (IF i = 1 THEN <<>> ELSE <<",">>) \o items[i]
    IN  <<"[">> \o F[Len(items)] \o <<"]">>

json_bool(b) == IF b THEN <<"t","r","u","e">> ELSE <<"f","a","l","s","e">>

json_strings(ss) == json_array([i \in 1..Len(ss) |-> json_string(ss[i])])

\* #[derive(Serialize)] struct LegacyColumn
json_column(c) ==
    <<"{","\"","n","a","m","e","\"",":">> \o json_string(c.name) \o <<",","\"","t","y","p","e","\"",":">> \o json_string(c.column_type)
    \o <<",","\"","n","o","t","N","u","l","l","\"",":">> \o json_bool(c.not_null) \o <<",","\"","p","k","\"",":">> \o json_bool(c.primary) \o <<"}">>

\* #[derive(Serialize)] struct LegacyIndex
json_index(x) ==
    <<"{","\"","n","a","m","e","\"",":">> \o json_string(x.name) \o <<",","\"","c","o","l","u","m","n","s","\"",":">> \o json_strings(x.columns)
    \o <<",","\"","u","n","i","q","u","e","\"",":">> \o json_bool(x.unique) \o <<"}">>

\* #[derive(Serialize)] struct LegacyForeignKey
json_fk(k) ==
    <<"{","\"","n","a","m","e","\"",":">> \o json_string(k.name) \o <<",","\"","c","o","l","u","m","n","s","\"",":">> \o json_strings(k.columns)
    \o <<",","\"","r","e","f","T","a","b","l","e","\"",":">> \o json_string(k.ref_table)
    \o <<",","\"","r","e","f","C","o","l","u","m","n","s","\"",":">> \o json_strings(k.ref_columns) \o <<"}">>

\* #[derive(Serialize)] struct LegacyTable: a None section is skipped
json_table(tb) ==
    <<"{","\"","n","a","m","e","\"",":">> \o json_string(tb.name) \o <<",","\"","r","o","w","C","o","u","n","t","\"",":">> \o tb.row_count
    \o <<",","\"","c","o","l","u","m","n","s","\"",":">>
    \o json_array([i \in 1..Len(tb.columns) |-> json_column(tb.columns[i])])
    \o (IF tb.indexes = <<>> THEN <<>>
        ELSE <<",","\"","i","n","d","e","x","e","s","\"",":">>
             \o json_array([i \in 1..Len(tb.indexes[1]) |-> json_index(tb.indexes[1][i])]))
    \o (IF tb.fks = <<>> THEN <<>>
        ELSE <<",","\"","f","k","s","\"",":">>
             \o json_array([i \in 1..Len(tb.fks[1]) |-> json_fk(tb.fks[1][i])]))
    \o <<"}">>

\* #[derive(Serialize)] struct LegacyMetadata
json_metadata(m) ==
    <<"{","\"","t","a","b","l","e","s","\"",":">>
    \o json_array([i \in 1..Len(m.tables) |-> json_table(m.tables[i])]) \o <<"}">>

\* parse_legacy_metadata: Result<String, String>
parse_legacy_metadata(output) ==
    LET encoded(parsed) ==
            IF parsed.ok THEN Ok(json_metadata(parsed.val[1])) ELSE parsed
    IN  encoded(legacy_metadata_value(output))
----------------------------------------------------------------------------
(* The state of the program *)

VARIABLES
    env,        \* the value of GRANITECTL_PATH, an Option
    currentExe, \* the result of std::env::current_exe(), an Option
    logOnce,    \* GRANITECTL_LOG: "uninit", "running" (its closure runs), "done"
    logLines,   \* the resolution lines printed so far
    destFile,   \* the content of the export's destination file, an Option
    pc,         \* per thread: where its request stands
    req,        \* per thread: the command it runs and its arguments
    invs,       \* per thread: the calls of run_granitectl of its request, in order
    result      \* per thread: the Option of what the command returned

vars == <<env, currentExe, logOnce, logLines, destFile, pc, req, invs, result>>

Threads == 1..NumThreads

\* The thread of the sequential specification
MainThread == 1

NoRequest == [op |-> "none", sql |-> <<>>, format |-> <<>>]

\* The arguments run_granitectl is called with
exec_args(format, sql, db) ==
    <<<<"e","x","e","c">>, <<"-","-","f","o","r","m","a","t">>, format, <<"-","q">>, sql, db>>

explain_args(sql, db) == <<<<"e","x","p","l","a","i","n">>, <<"-","-","j","s","o","n">>, <<"-","q">>, sql, db>>

meta_args(db) == <<<<"m","e","t","a">>, <<"-","-","j","s","o","n">>, db>>

dump_args(db) == <<<<"d","u","m","p">>, db>>

new_args(db) == <<<<"n","e","w">>, db>>

version_args == <<<<"-","-","v","e","r","s","i","o","n">>>>

\* The subcommand and output mode a call asks for
call_kind(args) ==
    CASE args[1] = <<"e","x","e","c">> ->
           (IF args[3] = <<"j","s","o","n">> THEN "exec_json"
            ELSE IF args[3] = <<"t","a","b","l","e">> THEN "exec_table" ELSE "exec_csv")
      [] args[1] = <<"e","x","p","l","a","i","n">> -> "explain"
      [] args[1] = <<"m","e","t","a">> -> "meta"
      [] args[1] = <<"d","u","m","p">> -> "dump"
      [] args[1] = <<"n","e","w">> -> "new"
      [] args[1] = <<"-","-","v","e","r","s","i","o","n">> -> "version"

\* One call of run_granitectl (or the resolution of granitectl_info) as it
\* starts: nothing resolved, no child, no result.  Beside the locals of the
\* function (path, source, child) the record keeps what happened in the call:
\* prechecked is "no", "found" or "missing", spawn and waited the outcomes of
\* spawn() and wait_timeout(), ran the seconds the child runs (0 while not
\* known), partial and captured the child's output, outcome the return
\* statement taken and result the Option of the value returned.
NewCall(args) ==
    [args |-> args, path |-> <<>>, source |-> "unresolved", prechecked |-> "no",
     spawn |-> "none", child |-> "none", waited |-> "no", ran |-> 0, partial |-> <<>>,
     captured |-> <<>>, outcome |-> "pending", result |-> <<>>]

\* The call a thread is in, or made last
Cur(t) == invs[t][Len(invs[t])]

Init ==
    /\ env \in EnvValues
    /\ currentExe \in CurrentExeValues
    /\ logOnce = "uninit"
    /\ logLines = <<>>
    /\ destFile = <<>>
    /\ pc = [t \in Threads |-> "idle"]
    /\ req = [t \in Threads |-> NoRequest]
    /\ invs = [t \in Threads |-> <<>>]
    /\ result = [t \in Threads |-> <<>>]

\* A command returns r
Finish(t, r) ==
    /\ pc' = [pc EXCEPT ![t] = "done"]
    /\ result' = [result EXCEPT ![t] = <<r>>]

\* A command calls run_granitectl(args)
Call(t, args) ==
    /\ pc' = [pc EXCEPT ![t] = "resolve"]
    /\ invs' = [invs EXCEPT ![t] = Append(@, NewCall(args))]
    /\ UNCHANGED result

\* run_granitectl returns r; outcome names the return statement taken
Return(t, call, outcome, r) ==
    /\ pc' = [pc EXCEPT ![t] = "returned"]
    /\ invs' = [invs EXCEPT ![t][Len(invs[t])] =
                    [call EXCEPT !.outcome = outcome, !.result = <<r>>]]

----------------------------------------------------------------------------
(* The commands, up to their first call of run_granitectl *)

\* open_db: no call of the tool at all
open_db(t) ==
    /\ pc[t] = "idle"
    /\ req' = [req EXCEPT ![t] = [NoRequest EXCEPT !.op = "open_db"]]
    /\ \E exists, metadataOk, isFile, openOk \in BOOLEAN :
         Finish(t, IF ~exists THEN Err(Msg.DbNotFound)
                   ELSE IF ~metadataOk THEN Err(Msg.UnableMeta \o OsError)
                   ELSE IF ~isFile THEN Err(Msg.NotFile)
                   ELSE IF ~openOk THEN Err(Msg.UnableOpen \o OsError)
                   ELSE Ok(<<>>))
    /\ UNCHANGED <<env, currentExe, logOnce, logLines, destFile, invs>>

\* create_db
create_db(t) ==
    /\ pc[t] = "idle"
    /\ req' = [req EXCEPT ![t] = [NoRequest EXCEPT !.op = "create_db"]]
    /\ \E exists, parentOk \in BOOLEAN :
         IF exists THEN Finish(t, Err(Msg.DbExists)) /\ UNCHANGED invs
         ELSE IF ~parentOk THEN Finish(t, Err(Msg.ParentDir \o OsError)) /\ UNCHANGED invs
         ELSE Call(t, new_args(DbPath))
    /\ UNCHANGED <<env, currentExe, logOnce, logLines, destFile>>

\* exec_sql without the test of the statement
exec_sql_any_statement(t, sql, format) ==
    /\ pc[t] = "idle"
    /\ req' = [req EXCEPT ![t] = [op |-> "exec_sql", sql |-> sql, format |-> format]]
    /\ \E exists \in BOOLEAN :
         IF ~exists THEN Finish(t, Err(Msg.DbNotFound)) /\ UNCHANGED invs
         ELSE IF format = <<"j","s","o","n","R","o","w","s">> THEN Call(t, exec_args(<<"j","s","o","n">>, sql, DbPath))
         ELSE IF format \in {<<"t","a","b","l","e">>, <<"c","s","v">>} THEN Call(t, exec_args(format, sql, DbPath))
         ELSE Finish(t, Err(Msg.UnsupportedFormat \o format)) /\ UNCHANGED invs
    /\ UNCHANGED <<env, currentExe, logOnce, logLines, destFile>>

\* exec_sql.  The path is a String, so to_str() is always Some.
exec_sql(t, sql, format) ==
    /\ pc[t] = "idle"
    /\ req' = [req EXCEPT ![t] = [op |-> "exec_sql", sql |-> sql, format |-> format]]
    /\ \E exists \in BOOLEAN :
         IF trim(sql) = <<>> THEN Finish(t, Err(Msg.SqlEmpty)) /\ UNCHANGED invs
         ELSE IF ~exists THEN Finish(t, Err(Msg.DbNotFound)) /\ UNCHANGED invs
         ELSE IF format = <<"j","s","o","n","R","o","w","s">> THEN Call(t, exec_args(<<"j","s","o","n">>, sql, DbPath))
         ELSE IF format \in {<<"t","a","b","l","e">>, <<"c","s","v">>} THEN Call(t, exec_args(format, sql, DbPath))
         ELSE Finish(t, Err(Msg.UnsupportedFormat \o format)) /\ UNCHANGED invs
    /\ UNCHANGED <<env, currentExe, logOnce, logLines, destFile>>

\* explain_sql
explain_sql(t, sql) ==
    /\ pc[t] = "idle"
    /\ req' = [req EXCEPT ![t] = [NoRequest EXCEPT !.op = "explain_sql", !.sql = sql]]
    /\ \E exists \in BOOLEAN :
         IF trim(sql) = <<>> THEN Finish(t, Err(Msg.SqlEmpty)) /\ UNCHANGED invs
         ELSE IF ~exists THEN Finish(t, Err(Msg.DbNotFound)) /\ UNCHANGED invs
         ELSE Call(t, explain_args(sql, DbPath))
    /\ UNCHANGED <<env, currentExe, logOnce, logLines, destFile>>

\* metadata
metadata(t) ==
    /\ pc[t] = "idle"
    /\ req' = [req EXCEPT ![t] = [NoRequest EXCEPT !.op = "metadata"]]
    /\ \E exists \in BOOLEAN :
         IF ~exists THEN Finish(t, Err(Msg.DbNotFound)) /\ UNCHANGED invs
         ELSE Call(t, meta_args(DbPath))
    /\ UNCHANGED <<env, currentExe, logOnce, logLines, destFile>>

\* export_csv: the database file is not looked for
export_csv(t, sql) ==
    /\ pc[t] = "idle"
    /\ req' = [req EXCEPT ![t] = [NoRequest EXCEPT !.op = "export_csv", !.sql = sql]]
    /\ IF trim(sql) = <<>> THEN Finish(t, Err(Msg.SqlEmpty)) /\ UNCHANGED invs
       ELSE Call(t, exec_args(<<"c","s","v">>, sql, DbPath))
    /\ UNCHANGED <<env, currentExe, logOnce, logLines, destFile>>

\* granitectl_info, up to its resolution
granitectl_info(t) ==
    /\ pc[t] = "idle"
    /\ req' = [req EXCEPT ![t] = [NoRequest EXCEPT !.op = "granitectl_info"]]
    /\ Call(t, version_args)
    /\ UNCHANGED <<env, currentExe, logOnce, logLines, destFile>>

----------------------------------------------------------------------------
(* run_granitectl, step by step *)

\* Where a caller goes once the resolution is logged
AfterLog(t) == IF req[t].op = "granitectl_info" THEN "probe" ELSE "precheck"

\* let (path, source) = granitectl_resolution();
resolve(t) ==
    /\ pc[t] = "resolve"
    /\ LET r == granitectl_resolution(env, currentExe)
       IN  invs' = [invs EXCEPT ![t][Len(invs[t])] =
                        [Cur(t) EXCEPT !.path = r.path, !.source = r.source]]
    /\ pc' = [pc EXCEPT ![t] = "log"]
    /\ UNCHANGED <<env, currentExe, logOnce, logLines, destFile, req, result>>

\* log_granitectl_resolution with the closure run by every caller, as if there
\* were no OnceLock: what property C10 tells from the code
log_granitectl_resolution_every_call(t) ==
    /\ pc[t] = "log"
    /\ logOnce' = "running"
    /\ pc' = [pc EXCEPT ![t] = "logwrite"]
    /\ UNCHANGED <<env, currentExe, logLines, destFile, req, invs, result>>

\* log_granitectl_resolution: GRANITECTL_LOG.get_or_init(..).  The first
\* caller runs the closure; a caller that comes while it runs waits; a caller
\* that comes after it goes on.
log_granitectl_resolution(t) ==
    /\ pc[t] = "log"
    /\ logOnce # "running"
    /\ IF logOnce = "uninit"
       THEN /\ logOnce' = "running"
            /\ pc' = [pc EXCEPT ![t] = "logwrite"]
       ELSE /\ logOnce' = logOnce
            /\ pc' = [pc EXCEPT ![t] = AfterLog(t)]
    /\ UNCHANGED <<env, currentExe, logLines, destFile, req, invs, result>>

\* The label of a source in the resolution line
source_label(source) ==
    CASE source = "Environment" -> "environment variable"
      [] source = "Default"     -> "default build path"
      [] source = "System"      -> "system PATH"

\* The closure of log_granitectl_resolution: the line is printed from the
\* caller's source and path (the path is shown canonicalized when that works)
log_closure(t) ==
    /\ pc[t] = "logwrite"
    /\ logLines' = Append(logLines, [label |-> source_label(Cur(t).source),
                                     path |-> Cur(t).path])
    /\ logOnce' = "done"
    /\ pc' = [pc EXCEPT ![t] = AfterLog(t)]
    /\ UNCHANGED <<env, currentExe, destFile, req, invs, result>>

\* The pre-check without the test of the source: what property C7 tells from
\* the code
precheck_every_source(t, exists) ==
    /\ pc[t] = "precheck"
    /\ LET call == [Cur(t) EXCEPT !.prechecked = IF exists THEN "found" ELSE "missing"]
       IN  IF ~exists
           THEN Return(t, call, "missing",
                       Err(missing_granitectl_message(call.path, call.source)))
           ELSE /\ invs' = [invs EXCEPT ![t][Len(invs[t])] = call]
                /\ pc' = [pc EXCEPT ![t] = "spawn"]
    /\ UNCHANGED <<env, currentExe, logOnce, logLines, destFile, req, result>>

\* if !matches!(source, GraniteCtlSource::System) && !path.exists()
precheck(t, exists) ==
    /\ pc[t] = "precheck"
    /\ IF Cur(t).source # "System"
       THEN LET call == [Cur(t) EXCEPT !.prechecked = IF exists THEN "found" ELSE "missing"]
            IN  IF ~exists
                THEN Return(t, call, "missing",
                            Err(missing_granitectl_message(call.path, call.source)))
                ELSE /\ invs' = [invs EXCEPT ![t][Len(invs[t])] = call]
                     /\ pc' = [pc EXCEPT ![t] = "spawn"]
       ELSE /\ pc' = [pc EXCEPT ![t] = "spawn"]
            /\ UNCHANGED invs
    /\ UNCHANGED <<env, currentExe, logOnce, logLines, destFile, req, result>>

\* command.spawn(): "ok", or an error of kind NotFound ("notfound") or of
\* another kind ("oserr")
spawn(t, outcome) ==
    /\ pc[t] = "spawn"
    /\ LET call == [Cur(t) EXCEPT !.spawn = outcome]
       IN  CASE outcome = "ok" ->
                  /\ invs' = [invs EXCEPT ![t][Len(invs[t])] =
                                  [call EXCEPT !.child = "running"]]
                  /\ pc' = [pc EXCEPT ![t] = "wait"]
             [] outcome = "notfound" ->
                  Return(t, call, "spawn_notfound",
                         Err(missing_granitectl_message(call.path, call.source)))
             [] outcome = "oserr" ->
                  Return(t, call, "spawn_err", Err(Msg.Run \o OsError))
    /\ UNCHANGED <<env, currentExe, logOnce, logLines, destFile, req, result>>

\* child.wait_timeout(QUERY_TIMEOUT).  ran is how long the child runs, in
\* seconds, waitOk whether the wait itself works, partial what the child has
\* written to its standard output when the wait ends without its exit.  The
\* child has exited in time (waited is "exited"), is still running after the
\* budget ("timeout"), or the wait failed ("error").
wait_timeout(t, ran, waitOk, partial) ==
    /\ pc[t] = "wait"
    /\ IF ~waitOk
       THEN /\ invs' = [invs EXCEPT ![t][Len(invs[t])] =
                            [Cur(t) EXCEPT !.partial = partial, !.waited = "error"]]
            /\ pc' = [pc EXCEPT ![t] = "kill_error"]
       ELSE IF ran < QUERY_TIMEOUT
       THEN /\ invs' = [invs EXCEPT ![t][Len(invs[t])] =
                            [Cur(t) EXCEPT !.child = "exited", !.waited = "exited",
                                           !.ran = ran]]
            /\ pc' = [pc EXCEPT ![t] = "read"]
       ELSE /\ invs' = [invs EXCEPT ![t][Len(invs[t])] =
                            [Cur(t) EXCEPT !.partial = partial, !.waited = "timeout",
                                           !.ran = ran]]
            /\ pc' = [pc EXCEPT ![t] = "kill_timeout"]
    /\ UNCHANGED <<env, currentExe, logOnce, logLines, destFile, req, result>>

\* The arms of the wait without child.kill(): what property C6 tells from the
\* code
kill_skipped(t) ==
    /\ pc[t] \in {"kill_timeout", "kill_error"}
    /\ pc' = [pc EXCEPT ![t] = IF pc[t] = "kill_timeout" THEN "timed_out" ELSE "wait_failed"]
    /\ UNCHANGED <<env, currentExe, logOnce, logLines, destFile, req, invs, result>>

\* let _ = child.kill();
kill(t) ==
    /\ pc[t] \in {"kill_timeout", "kill_error"}
    /\ invs' = [invs EXCEPT ![t][Len(invs[t])] = [Cur(t) EXCEPT !.child = "kill_issued"]]
    /\ pc' = [pc EXCEPT ![t] = IF pc[t] = "kill_timeout" THEN "timed_out" ELSE "wait_failed"]
    /\ UNCHANGED <<env, currentExe, logOnce, logLines, destFile, req, result>>

\* return Err("granitectl timed out".into()), and the return of the failed wait
wait_return(t) ==
    /\ pc[t] \in {"timed_out", "wait_failed"}
    /\ IF pc[t] = "timed_out"
       THEN Return(t, Cur(t), "timeout", Err(Msg.TimedOut))
       ELSE Return(t, Cur(t), "wait_err", Err(Msg.Await \o OsError))
    /\ UNCHANGED <<env, currentExe, logOnce, logLines, destFile, req, result>>

\* String::from_utf8_lossy: a byte that is not UTF-8, written 0xFF, becomes
\* the replacement character, written U+FFFD
from_utf8_lossy(bytes) ==
    [i \in 1..Len(bytes) |-> IF bytes[i] = "0xFF" THEN "U+FFFD" ELSE bytes[i]]

\* The end of run_granitectl with stderr returned as captured, without trim():
\* what property C8 tells from the code
read_output_verbatim(t, readOk, success, stdout, stderr) ==
    /\ pc[t] = "read"
    /\ LET call == [Cur(t) EXCEPT !.captured = <<[stdout |-> stdout, stderr |-> stderr,
                                                  success |-> success]>>]
       IN  IF ~readOk THEN Return(t, Cur(t), "read_err", Err(Msg.Read \o OsError))
           ELSE IF ~success
           THEN Return(t, call, "nonzero",
                       Err(IF stderr = <<>> THEN Msg.Generic ELSE from_utf8_lossy(stderr)))
           ELSE Return(t, call, "ok", Ok([stdout |-> from_utf8_lossy(stdout),
                                          stderr |-> from_utf8_lossy(stderr)]))
    /\ UNCHANGED <<env, currentExe, logOnce, logLines, destFile, req, result>>

\* child.wait_with_output() and what follows it: readOk is whether the output
\* could be read, success the exit status, stdout and stderr the bytes of the
\* two streams, kept in the call's record as captured
read_output(t, readOk, success, stdout, stderr) ==
    /\ pc[t] = "read"
    /\ LET call == [Cur(t) EXCEPT !.captured = <<[stdout |-> stdout, stderr |-> stderr,
                                                  success |-> success]>>]
       IN  IF ~readOk THEN Return(t, Cur(t), "read_err", Err(Msg.Read \o OsError))
           ELSE IF ~success
           THEN Return(t, call, "nonzero",
                       Err(IF trim(from_utf8_lossy(stderr)) = <<>> THEN Msg.Generic
                           ELSE trim(from_utf8_lossy(stderr))))
           ELSE Return(t, call, "ok", Ok([stdout |-> from_utf8_lossy(stdout),
                                          stderr |-> from_utf8_lossy(stderr)]))
    /\ UNCHANGED <<env, currentExe, logOnce, logLines, destFile, req, result>>

----------------------------------------------------------------------------
(* The commands, from the return of run_granitectl on *)

\* What the last call of run_granitectl returned
Returned(t) == Cur(t).result[1]

ExecResponse(format, output, payload) ==
    [format |-> format, output |-> output, result |-> payload]

\* exec_sql, format "jsonRows", with a body that does not parse treated as a
\* rejection when it holds one of the phrases: what property C2 tells from the
\* code
exec_sql_json_return_lenient(t) ==
    /\ pc[t] = "returned"
    /\ req[t].op = "exec_sql" /\ req[t].format = <<"j","s","o","n","R","o","w","s">>
    /\ Len(invs[t]) = 1
    /\ LET r == Returned(t)
       IN  IF r.ok /\ serde_from_str(r.val[1].stdout).ok
           THEN /\ Finish(t, Ok(ExecResponse(req[t].format, <<>>,
                                             serde_from_str(r.val[1].stdout).val)))
                /\ UNCHANGED invs
           ELSE IF is_unknown_format_error(IF r.ok THEN r.val[1].stdout ELSE r.err)
           THEN Call(t, exec_args(<<"t","a","b","l","e">>, req[t].sql, DbPath))
           ELSE /\ Finish(t, Err(IF r.ok
                                  THEN Msg.ParseJson \o serde_from_str(r.val[1].stdout).err
                                  ELSE r.err))
                /\ UNCHANGED invs
    /\ UNCHANGED <<env, currentExe, logOnce, logLines, destFile, req>>

\* exec_sql, format "jsonRows": the match on the structured call's result
exec_sql_json_return(t) ==
    /\ pc[t] = "returned"
    /\ req[t].op = "exec_sql" /\ req[t].format = <<"j","s","o","n","R","o","w","s">>
    /\ Len(invs[t]) = 1
    /\ LET r == Returned(t)
       IN  IF r.ok
           THEN LET payload == serde_from_str(r.val[1].stdout)
                IN  /\ Finish(t, IF payload.ok
                                 THEN Ok(ExecResponse(req[t].format, <<>>, payload.val))
                                 ELSE Err(Msg.ParseJson \o payload.err))
                    /\ UNCHANGED invs
           ELSE IF is_unknown_format_error(r.err)
           THEN Call(t, exec_args(<<"t","a","b","l","e">>, req[t].sql, DbPath))
           ELSE Finish(t, Err(r.err)) /\ UNCHANGED invs
    /\ UNCHANGED <<env, currentExe, logOnce, logLines, destFile, req>>

\* legacy_exec_result from the return of its call on, and the arm of exec_sql
\* that called it; duration is start.elapsed() in milliseconds
legacy_exec_result(t, duration) ==
    /\ pc[t] = "returned"
    /\ req[t].op = "exec_sql" /\ req[t].format = <<"j","s","o","n","R","o","w","s">>
    /\ Len(invs[t]) = 2
    /\ LET r == Returned(t)
           response(payload) ==
               IF payload.ok THEN Ok(ExecResponse(req[t].format, <<>>, payload.val))
               ELSE Err(payload.err)
       IN  Finish(t, response(IF r.ok
                              THEN parse_legacy_exec_output(r.val[1].stdout, duration)
                              ELSE Err(r.err)))
    /\ UNCHANGED <<env, currentExe, logOnce, logLines, destFile, req, invs>>

\* exec_sql, format "table" or "csv"
exec_sql_text_return(t) ==
    /\ pc[t] = "returned"
    /\ req[t].op = "exec_sql" /\ req[t].format # <<"j","s","o","n","R","o","w","s">>
    /\ LET r == Returned(t)
       IN  Finish(t, IF r.ok THEN Ok(ExecResponse(req[t].format, <<r.val[1].stdout>>, <<>>))
                     ELSE Err(r.err))
    /\ UNCHANGED <<env, currentExe, logOnce, logLines, destFile, req, invs>>

\* create_db
create_db_return(t) ==
    /\ pc[t] = "returned"
    /\ req[t].op = "create_db"
    /\ Finish(t, IF Returned(t).ok THEN Ok(<<>>) ELSE Err(Returned(t).err))
    /\ UNCHANGED <<env, currentExe, logOnce, logLines, destFile, req, invs>>

\* explain_sql
explain_sql_return(t) ==
    /\ pc[t] = "returned"
    /\ req[t].op = "explain_sql"
    /\ Finish(t, IF Returned(t).ok THEN Ok(Returned(t).val[1].stdout)
                 ELSE Err(Returned(t).err))
    /\ UNCHANGED <<env, currentExe, logOnce, logLines, destFile, req, invs>>

\* The test of metadata with the letters' case ignored: what property C3 tells
\* from the code
is_unknown_command_any_case(text) ==
    contains(to_ascii_lowercase(text), PhraseUnknownCommand)

\* preview.contains("unknown command") and err.contains("unknown command")
is_unknown_command(text) == contains(text, PhraseUnknownCommand)

\* metadata: the match on the structured call's result
metadata_return(t) ==
    /\ pc[t] = "returned"
    /\ req[t].op = "metadata"
    /\ Len(invs[t]) = 1
    /\ LET r == Returned(t)
       IN  IF r.ok
           THEN LET stdout == r.val[1].stdout
                    preview == trim(stdout)
                IN  IF ~looks_like_json(stdout)
                    THEN IF is_unknown_command(preview)
                         THEN Call(t, dump_args(DbPath))
                         ELSE /\ Finish(t, Err(IF preview = <<>> THEN Msg.NoMetadata
                                               ELSE Msg.NotJson \o preview))
                              /\ UNCHANGED invs
                    ELSE Finish(t, Ok(stdout)) /\ UNCHANGED invs
           ELSE IF is_unknown_command(r.err)
           THEN Call(t, dump_args(DbPath))
           ELSE Finish(t, Err(r.err)) /\ UNCHANGED invs
    /\ UNCHANGED <<env, currentExe, logOnce, logLines, destFile, req>>

\* legacy_metadata with a failed dump run once more: what property C5 tells
\* from the code
legacy_metadata_retrying(t) ==
    /\ pc[t] = "returned"
    /\ req[t].op = "metadata"
    /\ Len(invs[t]) = 2
    /\ LET r == Returned(t)
       IN  IF r.ok THEN Finish(t, parse_legacy_metadata(r.val[1].stdout)) /\ UNCHANGED invs
           ELSE Call(t, dump_args(DbPath))
    /\ UNCHANGED <<env, currentExe, logOnce, logLines, destFile, req>>

\* legacy_metadata from the return of its call on, and the arm of metadata
\* that called it
legacy_metadata(t) ==
    /\ pc[t] = "returned"
    /\ req[t].op = "metadata"
    /\ Len(invs[t]) = 2
    /\ LET r == Returned(t)
       IN  Finish(t, IF r.ok THEN parse_legacy_metadata(r.val[1].stdout) ELSE Err(r.err))
    /\ UNCHANGED <<env, currentExe, logOnce, logLines, destFile, req, invs>>

\* export_csv writing the file before it looks at the result of the call: with
\* nothing when the call failed
export_csv_return_write_first(t, writeOk, truncated) ==
    /\ pc[t] = "returned"
    /\ req[t].op = "export_csv"
    /\ LET r == Returned(t)
       IN  IF ~r.ok THEN Finish(t, Err(r.err)) /\ destFile' = << <<>> >>
           ELSE IF writeOk
           THEN Finish(t, Ok(<<>>)) /\ destFile' = <<r.val[1].stdout>>
           ELSE /\ Finish(t, Err(Msg.WriteCsv \o OsError))
                /\ destFile' = IF truncated THEN << <<>> >> ELSE destFile
    /\ UNCHANGED <<env, currentExe, logOnce, logLines, req, invs>>

\* export_csv: fs::write(&out_path, output.stdout).  A write that fails may
\* have created or truncated the file.
export_csv_return(t, writeOk, truncated) ==
    /\ pc[t] = "returned"
    /\ req[t].op = "export_csv"
    /\ LET r == Returned(t)
       IN  IF ~r.ok THEN Finish(t, Err(r.err)) /\ UNCHANGED destFile
           ELSE IF writeOk
           THEN Finish(t, Ok(<<>>)) /\ destFile' = <<r.val[1].stdout>>
           ELSE /\ Finish(t, Err(Msg.WriteCsv \o OsError))
                /\ destFile' = IF truncated THEN << <<>> >> ELSE destFile
    /\ UNCHANGED <<env, currentExe, logOnce, logLines, req, invs>>

\* granitectl_info with path.exists() deciding `exists` for every source
granitectl_info_probe_exists_by_path(t, exists, outcome, stdout) ==
    /\ pc[t] = "probe"
    /\ LET call == Cur(t)
           ver  == trim(from_utf8_lossy(stdout))
           version == IF ver # <<>> THEN <<ver>> ELSE <<>>
           missing == missing_granitectl_message(call.path, call.source)
           failed  == Msg.VersionFailed \o OsError
           info(e, v, err) == [path |-> call.path, exists |-> e, source |-> call.source,
                               version |-> v, error |-> err]
       IN  /\ Finish(t, Ok(
                 IF exists
                 THEN IF outcome = "ok" THEN info(TRUE, version, <<>>)
                      ELSE info(TRUE, <<>>, <<failed>>)
                 ELSE info(FALSE, <<>>, <<missing>>)))
           /\ invs' = [invs EXCEPT ![t][Len(invs[t])] =
                          [call EXCEPT !.prechecked = IF exists THEN "found" ELSE "missing",
                                       !.spawn = IF exists THEN outcome ELSE "none"]]
    /\ UNCHANGED <<env, currentExe, logOnce, logLines, destFile, req>>

\* granitectl_info after its resolution: exists is path.exists(), outcome the
\* result of Command::output() as in spawn, stdout the child's output.  The
\* call keeps what was tested and how the spawn went.
granitectl_info_probe(t, exists, outcome, stdout) ==
    /\ pc[t] = "probe"
    /\ LET call == Cur(t)
           ver  == trim(from_utf8_lossy(stdout))
           version == IF ver # <<>> THEN <<ver>> ELSE <<>>
           missing == missing_granitectl_message(call.path, call.source)
           failed  == Msg.VersionFailed \o OsError
           info(e, v, err) == [path |-> call.path, exists |-> e, source |-> call.source,
                               version |-> v, error |-> err]
       IN  IF call.source \in {"Environment", "Default"}
           THEN /\ Finish(t, Ok(
                      IF exists
                      THEN IF outcome = "ok" THEN info(TRUE, version, <<>>)
                           ELSE info(TRUE, <<>>, <<failed>>)
                      ELSE info(FALSE, <<>>, <<missing>>)))
                /\ invs' = [invs EXCEPT ![t][Len(invs[t])] =
                               [call EXCEPT !.prechecked = IF exists THEN "found" ELSE "missing",
                                            !.spawn = IF exists THEN outcome ELSE "none"]]
           ELSE /\ Finish(t, Ok(
                      IF outcome = "ok" THEN info(TRUE, version, <<>>)
                      ELSE IF outcome = "notfound" THEN info(FALSE, <<>>, <<missing>>)
                      ELSE info(FALSE, <<>>, <<failed>>)))
                /\ invs' = [invs EXCEPT ![t][Len(invs[t])] = [call EXCEPT !.spawn = outcome]]
    /\ UNCHANGED <<env, currentExe, logOnce, logLines, destFile, req>>

\* The command's result goes back to the caller: nothing of the request is kept
respond(t) ==
    /\ pc[t] = "done"
    /\ pc' = [pc EXCEPT ![t] = "idle"]
    /\ req' = [req EXCEPT ![t] = NoRequest]
    /\ invs' = [invs EXCEPT ![t] = <<>>]
    /\ result' = [result EXCEPT ![t] = <<>>]
    /\ UNCHANGED <<env, currentExe, logOnce, logLines, destFile>>

\* The environment of the process changes GRANITECTL_PATH
set_env(v) ==
    /\ v # env
    /\ env' = v
    /\ UNCHANGED <<currentExe, logOnce, logLines, destFile, pc, req, invs, result>>

----------------------------------------------------------------------------
(* The specifications *)

SpawnOutcomes == {"ok", "notfound", "oserr"}

\* Every input of the model
AllInputs ==
    [sqls |-> SqlTexts, formats |-> FormatTexts, stdouts |-> ChildStdouts,
     stderrs |-> Stderrs, successStderrs |-> SuccessStderrs,
     partials |-> PartialStdouts, durations |-> Durations]

\* The inputs of the concurrent specification: a child that prints nothing
\* and, when it fails, the complaint that sets off the fallback of metadata
ConcInputs ==
    [stdouts |-> [k \in DOMAIN ChildStdouts |-> {<<>>}],
     stderrs |-> {<<"u","n","k","n","o","w","n"," ","c","o","m","m","a","n","d","\n">>},
     successStderrs |-> {<<>>},
     partials |-> {<<>>}]

\* The values of GRANITECTL_PATH in the concurrent specification
ConcEnvValues ==
    { <<>>, << <<"/","o","p","t","/","g","c","t","l">> >> }

\* The texts the child of thread t's call can print, where its output is read
StdoutsFor(t, in) ==
    IF pc[t] \in {"read", "probe"} THEN in.stdouts[call_kind(Cur(t).args)] ELSE {}

\* What the child of thread t's call can end with: its exit status and its
\* two streams
ChildRuns(t, in) ==
    {[success |-> TRUE, stdout |-> o, stderr |-> e] :
        o \in StdoutsFor(t, in), e \in in.successStderrs}
    \cup {[success |-> FALSE, stdout |-> o, stderr |-> e] :
        o \in FailureStdouts, e \in in.stderrs}

\* run_granitectl, and the resolution of granitectl_info: the steps of thread
\* t's call
Invoker(t, in) ==
    \/ resolve(t)
    \/ log_granitectl_resolution(t)
    \/ log_closure(t)
    \/ \E exists \in BOOLEAN : precheck(t, exists)
    \/ \E outcome \in SpawnOutcomes : spawn(t, outcome)
    \/ \E ran \in ChildSeconds, waitOk \in BOOLEAN, partial \in in.partials :
          wait_timeout(t, ran, waitOk, partial)
    \/ kill(t)
    \/ wait_return(t)
    \/ \E readOk \in BOOLEAN, run \in ChildRuns(t, in) :
          read_output(t, readOk, run.success, run.stdout, run.stderr)

\* Every step of thread t, with the inputs drawn from the sets of in
ThreadStep(t, in) ==
    \/ open_db(t)
    \/ create_db(t)
    \/ \E sql \in in.sqls, format \in in.formats : exec_sql(t, sql, format)
    \/ \E sql \in in.sqls : explain_sql(t, sql)
    \/ metadata(t)
    \/ \E sql \in in.sqls : export_csv(t, sql)
    \/ granitectl_info(t)
    \/ Invoker(t, in)
    \/ exec_sql_json_return(t)
    \/ \E duration \in in.durations : legacy_exec_result(t, duration)
    \/ exec_sql_text_return(t)
    \/ create_db_return(t)
    \/ explain_sql_return(t)
    \/ metadata_return(t)
    \/ legacy_metadata(t)
    \/ \E writeOk, truncated \in BOOLEAN : export_csv_return(t, writeOk, truncated)
    \/ \E exists \in BOOLEAN, outcome \in SpawnOutcomes, stdout \in StdoutsFor(t, in) :
          granitectl_info_probe(t, exists, outcome, stdout)
    \/ respond(t)

\* One request at a time, every input of the model
Next ==
    \/ \E v \in EnvValues : set_env(v)
    \/ ThreadStep(MainThread, AllInputs)

Spec == Init /\ [][Next]_vars

\* The steps of thread t in the concurrent specification: the commands
\* granitectl_info, create_db (one call of run_granitectl) and metadata (one
\* call or two).  The other commands reach log_granitectl_resolution through
\* the same run_granitectl.
ConcStep(t) ==
    \/ create_db(t)
    \/ metadata(t)
    \/ granitectl_info(t)
    \/ Invoker(t, ConcInputs)
    \/ create_db_return(t)
    \/ metadata_return(t)
    \/ legacy_metadata(t)
    \/ \E exists \in BOOLEAN, outcome \in SpawnOutcomes, stdout \in StdoutsFor(t, ConcInputs) :
          granitectl_info_probe(t, exists, outcome, stdout)
    \/ respond(t)

\* Requests on NumThreads threads at once, the location of the program known
InitConc == Init /\ env \in ConcEnvValues /\ currentExe # <<>>

NextConc ==
    \/ \E v \in ConcEnvValues : set_env(v)
    \/ \E t \in Threads : ConcStep(t)

SpecConc == InitConc /\ [][NextConc]_vars

----------------------------------------------------------------------------
(* What an older granitectl prints: the inputs of the legacy parsers *)

MaxColumns == 2
MaxRows == 2
MaxEntries == 2
MaxTables == 2
MaxLines == 2

\* The sequences over S of at most n items
SeqsUpTo(S, n) == UNION {[1..k -> S] : k \in 0..n}

RECURSIVE flatten(_)
flatten(ss) == IF ss = <<>> THEN <<>> ELSE Head(ss) \o flatten(Tail(ss))

\* Lines printed one after the other, each ended by a line feed
print_lines(ls) == flatten([i \in 1..Len(ls) |-> ls[i] \o <<"\n">>])

\* The names of the columns, in the order of the header
TableHeader == <<<<"i","d">>, <<" ","n","m"," ">>, <<"c","3">>>>

\* The data rows of a table of k columns: every cell plain, every cell padded,
\* every cell empty, plain and empty cells in turn, a cell too many, and (but
\* for one column) a cell too few
TableRows(k) ==
    {[i \in 1..k |-> <<"1">>], [i \in 1..k |-> <<" ","b"," ">>], [i \in 1..k |-> <<>>],
     [i \in 1..k |-> IF i % 2 = 1 THEN <<"x"," ","y">> ELSE <<>>],
     [i \in 1..(k + 1) |-> <<"1">>],
     [i \in 1..(IF k = 1 THEN 1 ELSE k - 1) |-> <<"1">>]}

\* A line of the table: its cells with " | " between them
table_line(cells) ==
    flatten([i \in 1..Len(cells) |-> IF i = 1 THEN cells[i] ELSE <<" ","|"," ">> \o cells[i]])

\* The tables an older tool can print: a header, the data rows, the count of
\* the trailer when there is one
LegacyTables ==
    UNION {{[header |-> SubSeq(TableHeader, 1, k), rows |-> rows, trailer |-> trailer] :
                rows \in SeqsUpTo(TableRows(k), MaxRows),
                trailer \in {<<>>, <<<<"0">>>>, <<<<"1">>>>, <<<<"2">>>>, <<<<"0","0","7">>>>}} :
           k \in 1..MaxColumns}

\* The text of a table: header, separator, data rows, trailer
table_text(tb) ==
    print_lines(<<table_line(tb.header), <<"-","-","-">>>>
                \o [i \in 1..Len(tb.rows) |-> table_line(tb.rows[i])]
                \o (IF tb.trailer = <<>> THEN <<>>
                    ELSE << <<"(">> \o tb.trailer[1] \o <<" ","r","o","w","(","s",")",")">> >>))

\* The status lines of a statement that returns no rows
StatusLines ==
    {<<"3"," ","r","o","w","(","s",")"," ","i","n","s","e","r","t","e","d">>, <<"i","n","s","e","r","t","e","d"," ","3"," ","r","o","w","s">>, <<"O","K">>, <<"0"," ","r","o","w","(","s",")"," ","u","p","d","a","t","e","d">>,
     <<" "," ","5"," ","d","o","n","e">>, <<"1","2","a","3","4">>, <<"0","0","7"," ","r","o","w","s">>, <<"a","0","b","2">>,
     <<"1","8","4","4","6","7","4","4","0","7","3","7","0","9","5","5","1","6","1","5"," ","r","o","w","s">>, <<"1","8","4","4","6","7","4","4","0","7","3","7","0","9","5","5","1","6","1","6"," ","r","o","w","s">>,
     <<" ","(","1"," ","r","o","w","(","s",")",")">>, <<"x","(","2",")">>}

\* A status line as the whole output: blank lines around it, its line feed
\* there or not
LegacyStatuses ==
    {[line |-> l, before |-> b, after |-> a] :
        l \in StatusLines, b \in {<<>>, <<"\n">>, <<" ","\n">>}, a \in {<<>>, <<"\n">>, <<"\n"," "," ","\n">>}}

\* Every output of `exec --format table` in the legacy specification
LegacyExecOutputs ==
    {table_text(tb) : tb \in LegacyTables} \cup {s.before \o s.line \o s.after : s \in LegacyStatuses}

\* The lines of the columns of `meta`'s older form, `dump`: a name, a type,
\* the markers that follow in the order printed
DumpColumns ==
    {[name |-> n, column_type |-> ty, markers |-> ms] :
        n \in {<<"i","d">>},
        ty \in {<<"I","N","T">>, <<"V","A","R","C","H","A","R","(","1","0",")">>, <<"D","O","U","B","L","E"," ","P","R","E","C","I","S","I","O","N">>},
        ms \in {<<>>, <<<<" ","N","O","T"," ","N","U","L","L">>>>, <<<<" ","P","R","I","M","A","R","Y"," ","K","E","Y">>>>,
                <<<<" ","N","O","T"," ","N","U","L","L">>, <<" ","P","R","I","M","A","R","Y"," ","K","E","Y">>>>, <<<<" ","P","R","I","M","A","R","Y"," ","K","E","Y">>, <<" ","N","O","T"," ","N","U","L","L">>>>}}

column_line(c) == <<" "," ","-"," ">> \o c.name \o <<" ">> \o c.column_type \o flatten(c.markers)

\* The entries of the section of the indexes: the line, and the index it
\* stands for
DumpIndexes ==
    {[line |-> <<" "," "," "," ","-"," ","i","x","_","i","d"," ","(","i","d",")"," ","U","N","I","Q","U","E">>,
      index |-> [name |-> <<"i","x","_","i","d">>, columns |-> <<<<"i","d">>>>, unique |-> TRUE]],
     [line |-> <<" "," "," "," ","-"," ","i","x","_","n","m"," ","(","n","m",","," ","i","d",")">>,
      index |-> [name |-> <<"i","x","_","n","m">>, columns |-> <<<<"n","m">>, <<"i","d">>>>, unique |-> FALSE]]}

\* The entries of the section of the foreign keys
DumpForeignKeys ==
    {[line |-> <<" "," "," "," ","-"," ","f","k","_","o"," ","(","o","w","n","e","r",")"," ","R","E","F","E","R","E","N","C","E","S"," ","u","(","i","d",")">>,
      fk |-> [name |-> <<"f","k","_","o">>, columns |-> <<<<"o","w","n","e","r">>>>, ref_table |-> <<"u">>,
              ref_columns |-> <<<<"i","d">>>>]]}

\* A section of a table: not printed, or its marker and at most MaxEntries
\* entries
Sections(entries) == {<<>>} \cup {<<es>> : es \in SeqsUpTo(entries, MaxEntries)}

\* The tables of a dump: one column of any form and no section, or the
\* column 'id INT' and the sections
DumpTables ==
    {[name |-> <<"t">>, row_count |-> <<"2">>, columns |-> <<c>>, indexes |-> <<>>, fks |-> <<>>] :
        c \in DumpColumns}
    \cup {[name |-> <<"t">>, row_count |-> <<"2">>,
           columns |-> <<[name |-> <<"i","d">>, column_type |-> <<"I","N","T">>, markers |-> <<>>]>>,
           indexes |-> ix, fks |-> fk] :
        ix \in Sections(DumpIndexes), fk \in Sections(DumpForeignKeys)}

\* The lines of a table: header, columns, sections
dump_table_lines(tb) ==
    << <<"T","a","b","l","e"," ">> \o tb.name \o <<" ","(">> \o tb.row_count \o <<" ","r","o","w","(","s",")",")">> >>
    \o [i \in 1..Len(tb.columns) |-> column_line(tb.columns[i])]
    \o (IF tb.indexes = <<>> THEN <<>>
        ELSE << <<" "," ","I","n","d","e","x","e","s",":">> >> \o [i \in 1..Len(tb.indexes[1]) |-> tb.indexes[1][i].line])
    \o (IF tb.fks = <<>> THEN <<>>
        ELSE << <<" "," ","F","o","r","e","i","g","n"," ","K","e","y","s",":">> >> \o [i \in 1..Len(tb.fks[1]) |-> tb.fks[1][i].line])

\* The tables that follow the first one of a dump
FollowingTables ==
    {tb \in DumpTables :
        /\ tb.columns[1].markers = <<>> /\ tb.columns[1].column_type = <<"I","N","T">>
        /\ tb.fks = <<>>
        /\ tb.indexes \in {<<>>, << <<>> >>} \cup {<< <<x>> >> : x \in DumpIndexes}}

\* The dumps of a database with tables
TableDumps ==
    {<<tb>> \o more : tb \in DumpTables, more \in SeqsUpTo(FollowingTables, MaxTables - 1)}

table_dump_text(d) == print_lines(flatten([i \in 1..Len(d) |-> dump_table_lines(d[i])]))

\* Lines around the line of a database without tables: the header of a table,
\* a column, a header without its count, a column without its type, a line
\* of another kind, a blank line
DumpLines ==
    {<<"T","a","b","l","e"," ","t"," ","(","2"," ","r","o","w","(","s",")",")">>, <<" "," ","-"," ","i","d"," ","I","N","T">>, <<"T","a","b","l","e"," ","t">>, <<" "," ","-"," ","i","d">>, <<"g","a","r","b","a","g","e">>, <<>>}

\* The dumps that hold the line 'No tables defined'
SentinelDumps ==
    {[before |-> b, after |-> a] :
        b \in SeqsUpTo(DumpLines, MaxLines), a \in SeqsUpTo(DumpLines, 1)}

sentinel_dump_text(d) == print_lines(d.before \o << <<"N","o"," ","t","a","b","l","e","s"," ","d","e","f","i","n","e","d">> >> \o d.after)

\* The headers of tables: the line, and the name and the count it stands for,
\* or no count when the line is not the header of a table
DumpHeaders ==
    {[line |-> <<"T","a","b","l","e"," ","a"," ","(","0"," ","r","o","w","(","s",")",")">>, name |-> <<"a">>, row_count |-> << <<"0">> >>],
     [line |-> <<"T","a","b","l","e"," ","b"," ","(","1","2"," ","r","o","w","(","s",")",")">>, name |-> <<"b">>, row_count |-> << <<"1","2">> >>],
     [line |-> <<"T","a","b","l","e"," ","t"," ","(","0","0","7"," ","r","o","w","(","s",")",")">>, name |-> <<"t">>, row_count |-> << <<"7">> >>],
     [line |-> <<"T","a","b","l","e"," ","t"," ","(","+","3"," ","r","o","w","(","s",")",")">>, name |-> <<"t">>, row_count |-> << <<"3">> >>],
     [line |-> <<"T","a","b","l","e"," ","t">>, name |-> <<"t">>, row_count |-> <<>>],
     [line |-> <<"T","a","b","l","e"," ","t"," ","(","2"," ","r","o","w","s",")">>, name |-> <<"t">>, row_count |-> <<>>],
     [line |-> <<"T","a","b","l","e"," ","t"," ","(","x"," ","r","o","w","(","s",")",")">>, name |-> <<"t">>, row_count |-> <<>>],
     [line |-> <<"T","a","b","l","e"," ","t"," ","(","-","1"," ","r","o","w","(","s",")",")">>, name |-> <<"t">>, row_count |-> <<>>]}

\* The dumps of headers alone
HeaderDumps == SeqsUpTo(DumpHeaders, MaxTables) \ {<<>>}

header_dump_text(d) == print_lines([i \in 1..Len(d) |-> d[i].line])

\* Lines that stand where the loop has no use for them: before the first
\* header ("None"), or in the section given.  They are blank, or of no known
\* kind, or entries and markers of another section, some of them malformed
NoiseLines(section) ==
    IF section = "None"
    THEN {<<" "," ","I","n","d","e","x","e","s",":">>, <<" "," ","F","o","r","e","i","g","n"," ","K","e","y","s",":">>, <<" "," ","-"," ","i","d">>, <<" "," "," "," ","-"," ","i","x","_","i","d">>, <<"g","a","r","b","a","g","e">>}
    ELSE IF section = "Columns"
    THEN {<<>>, <<" "," "," ">>, <<"g","a","r","b","a","g","e">>, <<" "," "," "," ","-"," ","i","x","_","i","d">>, <<" "," ","-","i","d"," ","I","N","T">>, <<" "," ","i","n","d","e","x","e","s",":">>,
          <<" ","T","a","b","l","e"," ","x"," ","(","1"," ","r","o","w","(","s",")",")">>}
    ELSE {<<>>, <<" "," "," ">>, <<"g","a","r","b","a","g","e">>, <<" "," ","-"," ","l","a","t","e"," ","I","N","T">>, <<" "," ","-"," ","l","a","t","e">>, <<" "," "," ","-"," ","i","x","_","z"," ","(","z",")">>,
          <<" "," ","I","n","d","e","x","e","s">>}

\* The dumps of one table with such lines: some before the header, or one
\* after the first line and after the last line of one section
NoisyDumps ==
    LET tables == {tb \in DumpTables :
                      /\ tb.columns[1].markers = <<>> /\ tb.columns[1].column_type = <<"I","N","T">>
                      /\ tb.indexes \in {<<>>, << <<>> >>} \cup {<< <<x>> >> : x \in DumpIndexes}
                      /\ tb.fks \in {<<>>} \cup {<< <<x>> >> : x \in DumpForeignKeys}}
    IN  {[prelude |-> ls, table |-> tb, section |-> "None", noise |-> <<>>] :
            ls \in SeqsUpTo(NoiseLines("None"), MaxLines) \ {<<>>}, tb \in tables}
        \cup UNION {{[prelude |-> <<>>, table |-> tb, section |-> sec, noise |-> <<n>>] :
                        n \in NoiseLines(sec), tb \in tables} :
                     sec \in {"Columns", "Indexes", "ForeignKeys"}}

noisy_dump_text(d) ==
    LET tb == d.table
        noise(sec) == IF d.section = sec THEN d.noise ELSE <<>>
        around(sec, first, entries) == <<first>> \o noise(sec) \o entries \o noise(sec)
    IN  print_lines(
            d.prelude
            \o around("Columns", Head(dump_table_lines(tb)),
                       [i \in 1..Len(tb.columns) |-> column_line(tb.columns[i])])
            \o (IF tb.indexes = <<>> THEN <<>>
                ELSE around("Indexes", <<" "," ","I","n","d","e","x","e","s",":">>,
                            [i \in 1..Len(tb.indexes[1]) |-> tb.indexes[1][i].line]))
            \o (IF tb.fks = <<>> THEN <<>>
                ELSE around("ForeignKeys", <<" "," ","F","o","r","e","i","g","n"," ","K","e","y","s",":">>,
                            [i \in 1..Len(tb.fks[1]) |-> tb.fks[1][i].line])))

\* Columns 'id' with what follows the name: a type or none, then clauses,
\* the two markers and a default among them
ClauseColumns ==
    {[type |-> ty, clauses |-> cl] :
        ty \in {<<>>, <<" ","I","N","T">>},
        cl \in {<<>>, << <<" ","D","E","F","A","U","L","T"," ","0">> >>, << <<" ","N","O","T"," ","N","U","L","L">> >>,
                << <<" ","N","O","T"," ","N","U","L","L">>, <<" ","D","E","F","A","U","L","T"," ","0">> >>, << <<" ","D","E","F","A","U","L","T"," ","0">>, <<" ","N","O","T"," ","N","U","L","L">> >>,
                << <<" ","P","R","I","M","A","R","Y"," ","K","E","Y">>, <<" ","D","E","F","A","U","L","T"," ","0">> >>,
                << <<" ","N","O","T"," ","N","U","L","L">>, <<" ","D","E","F","A","U","L","T"," ","0">>, <<" ","P","R","I","M","A","R","Y"," ","K","E","Y">> >>,
                << <<" ","N","O","T"," ","N","U","L","L">>, <<" ","N","O","T"," ","N","U","L","L">> >>,
                << <<" ","P","R","I","M","A","R","Y"," ","K","E","Y">>, <<" ","N","O","T"," ","N","U","L","L">>, <<" ","P","R","I","M","A","R","Y"," ","K","E","Y">> >>}}

\* Every output of `dump` in the legacy specification
LegacyDumps ==
    {table_dump_text(d) : d \in TableDumps}
    \cup {sentinel_dump_text(d) : d \in SentinelDumps}
    \cup {header_dump_text(d) : d \in HeaderDumps}
    \cup {noisy_dump_text(d) : d \in NoisyDumps}
    \cup {print_lines(<< <<"T","a","b","l","e"," ","t"," ","(","2"," ","r","o","w","(","s",")",")">>, <<" "," ","-"," ","i","d">> \o c.type \o flatten(c.clauses) >>) :
             c \in ClauseColumns}

\* The inputs of the legacy specification: a tool that rejects the structured
\* formats and prints the older ones
LegacyInputs ==
    [sqls |-> {<<"S","E","L","E","C","T"," ","1">>},
     formats |-> {<<"j","s","o","n","R","o","w","s">>},
     stdouts |-> [k \in DOMAIN ChildStdouts |->
                    IF k = "exec_table" THEN LegacyExecOutputs
                    ELSE IF k = "dump" THEN LegacyDumps
                    ELSE {<<>>}],
     stderrs |-> {<<"u","n","k","n","o","w","n"," ","f","o","r","m","a","t","\n">>, <<"u","n","k","n","o","w","n"," ","c","o","m","m","a","n","d","\n">>},
     successStderrs |-> {<<>>},
     partials |-> {<<>>},
     durations |-> Durations]

\* exec_sql and metadata with their fallbacks
LegacyStep(t) ==
    \/ \E sql \in LegacyInputs.sqls, format \in LegacyInputs.formats : exec_sql(t, sql, format)
    \/ metadata(t)
    \/ Invoker(t, LegacyInputs)
    \/ exec_sql_json_return(t)
    \/ \E duration \in LegacyInputs.durations : legacy_exec_result(t, duration)
    \/ metadata_return(t)
    \/ legacy_metadata(t)
    \/ respond(t)

InitLegacy == Init /\ env = <<>> /\ currentExe # <<>>

NextLegacy == LegacyStep(MainThread)

SpecLegacy == InitLegacy /\ [][NextLegacy]_vars
----------------------------------------------------------------------------
(* The properties *)

\* The commands that reach the tool through run_granitectl, and open_db
Requests == {"open_db", "create_db", "exec_sql", "explain_sql", "metadata", "export_csv"}

JsonRows == <<"j","s","o","n","R","o","w","s">>

\* p occurs in s
ContainsText(s, p) ==
    \E i \in 1..(Len(s) - Len(p) + 1) : \A k \in 1..Len(p) : s[i + k - 1] = p[k]

\* p, written in lower case, occurs in s with its letters in either case
ContainsAnyCase(s, p) ==
    \E i \in 1..(Len(s) - Len(p) + 1) :
        \A k \in 1..Len(p) :
            \/ s[i + k - 1] = p[k]
            \/ \E n \in 1..26 : UpperCase[n] = s[i + k - 1] /\ LowerCase[n] = p[k]

\* s holds nothing but whitespace
AllWs(s) == \A i \in 1..Len(s) : IsWs(s[i])

\* e is s without the whitespace at its two ends
IsTrimOf(e, s) ==
    /\ e # <<>> /\ ~IsWs(e[1]) /\ ~IsWs(e[Len(e)])
    /\ \E i \in 1..Len(s) :
          /\ i + Len(e) - 1 <= Len(s)
          /\ \A k \in 1..Len(e) : s[i + k - 1] = e[k]
          /\ \A k \in 1..(i - 1) : IsWs(s[k])
          /\ \A k \in (i + Len(e))..Len(s) : IsWs(s[k])

\* The first character of body that is no whitespace is { or [
StartsStructured(body) ==
    \E i \in 1..Len(body) :
        body[i] \in {"{", "["} /\ \A k \in 1..(i - 1) : IsWs(body[k])

\* An error text the recognised-rejection predicate holds for
IsRejection(err) ==
    \/ ContainsAnyCase(err, <<"u","n","k","n","o","w","n"," ","f","o","r","m","a","t">>)
    \/ ContainsAnyCase(err, <<"j","s","o","n"," ","f","o","r","m","a","t"," ","i","s"," ","o","n","l","y"," ","s","u","p","p","o","r","t","e","d">>)

\* A text that holds the complaint of a tool without the subcommand
IsUnknownCommand(text) == ContainsText(text, <<"u","n","k","n","o","w","n"," ","c","o","m","m","a","n","d">>)

\* The command of thread t has acted on the result of its first call
Handled(t) == ~(pc[t] = "returned" /\ Len(invs[t]) = 1)

\* The first call of thread t's request has returned
FirstReturned(t) == Len(invs[t]) >= 1 /\ invs[t][1].outcome # "pending"

\* What exec_sql answers from the result r of its legacy call, measured at d
LegacyExecAnswer(r, format, d) ==
    LET answer(p) ==
            IF p.ok THEN Ok([format |-> format, output |-> <<>>, result |-> p.val])
            ELSE Err(p.err)
    IN  IF r.ok THEN answer(parse_legacy_exec_output(r.val[1].stdout, d)) ELSE Err(r.err)

\* C1: exec_sql with format jsonRows, once it has acted on a failed structured
\* call: when the error text holds 'unknown format' or 'json format is only
\* supported' in any case of letters, there is exactly one more call, it asks
\* for exec --format table with the same statement and database, and the
\* command returns what parse_legacy_exec_output makes of that call's output
\* (or that call's error); for any other error text there is no second call
\* and the command returns the error unchanged.
C1_FormatFallback ==
    \A t \in Threads :
        (/\ req[t].op = "exec_sql" /\ req[t].format = JsonRows
         /\ FirstReturned(t) /\ ~invs[t][1].result[1].ok
         /\ Handled(t))
        => IF IsRejection(invs[t][1].result[1].err)
           THEN /\ Len(invs[t]) = 2
                /\ invs[t][2].args =
                     <<<<"e","x","e","c">>, <<"-","-","f","o","r","m","a","t">>, <<"t","a","b","l","e">>, <<"-","q">>, req[t].sql, DbPath>>
                /\ pc[t] = "done" =>
                     \E d \in Durations :
                        result[t] = <<LegacyExecAnswer(invs[t][2].result[1], JsonRows, d)>>
           ELSE /\ Len(invs[t]) = 1
                /\ pc[t] = "done"
                /\ result[t] = <<Err(invs[t][1].result[1].err)>>

\* A request answered with the rows of the legacy table after a rejection
\* written in mixed case
C1_Witness ==
    \E t \in Threads :
        /\ pc[t] = "done" /\ req[t].op = "exec_sql" /\ req[t].format = JsonRows
        /\ Len(invs[t]) = 2
        /\ ~ContainsText(invs[t][1].result[1].err, <<"u","n","k","n","o","w","n"," ","f","o","r","m","a","t">>)
        /\ ContainsText(invs[t][1].result[1].err, <<"U","n","k","n","o","w","n"," ","F","o","r","m","a","t">>)
        /\ result[t][1].ok
        /\ result[t][1].val[1].result[1].rows # <<>>

\* C2: exec_sql with format jsonRows: when the structured call succeeded and
\* its body does not deserialize, there is never a second call, and the
\* command ends with the error 'Failed to parse JSON output: ...', also for a
\* body that holds a rejection phrase.
C2_InvalidBodyIsParseError ==
    \A t \in Threads :
        (/\ req[t].op = "exec_sql" /\ req[t].format = JsonRows
         /\ FirstReturned(t) /\ invs[t][1].outcome = "ok"
         /\ invs[t][1].captured[1].success
         /\ ~serde_from_str(invs[t][1].result[1].val[1].stdout).ok)
        => /\ Len(invs[t]) = 1
           /\ pc[t] \in {"returned", "done"}
           /\ pc[t] = "done" =>
                /\ ~result[t][1].ok
                /\ Len(result[t][1].err) >= Len(<<"F","a","i","l","e","d"," ","t","o"," ","p","a","r","s","e"," ","J","S","O","N"," ","o","u","t","p","u","t",":"," ">>)
                /\ SubSeq(result[t][1].err, 1, Len(<<"F","a","i","l","e","d"," ","t","o"," ","p","a","r","s","e"," ","J","S","O","N"," ","o","u","t","p","u","t",":"," ">>))
                     = <<"F","a","i","l","e","d"," ","t","o"," ","p","a","r","s","e"," ","J","S","O","N"," ","o","u","t","p","u","t",":"," ">>

\* A request ended by the parse error of a body that holds a rejection phrase
C2_Witness ==
    \E t \in Threads :
        /\ pc[t] = "done" /\ req[t].op = "exec_sql" /\ req[t].format = JsonRows
        /\ Len(invs[t]) = 1 /\ invs[t][1].outcome = "ok"
        /\ IsRejection(invs[t][1].result[1].val[1].stdout)
        /\ ~result[t][1].ok

\* What metadata answers from the result r of its dump call
LegacyMetadataAnswer(r) ==
    IF r.ok THEN parse_legacy_metadata(r.val[1].stdout) ELSE Err(r.err)

\* C3: metadata, once it has acted on a failed structured call: when the error
\* text holds 'unknown command', there is exactly one more call, it asks for
\* dump of the same database, and the command returns what
\* parse_legacy_metadata makes of the dump (or the dump call's error); for any
\* other error text there is no dump call and the command returns the error
\* unchanged.
C3_MetadataFailureFallback ==
    \A t \in Threads :
        (/\ req[t].op = "metadata"
         /\ FirstReturned(t) /\ ~invs[t][1].result[1].ok
         /\ Handled(t))
        => IF IsUnknownCommand(invs[t][1].result[1].err)
           THEN /\ Len(invs[t]) = 2
                /\ invs[t][2].args = <<<<"d","u","m","p">>, DbPath>>
                /\ pc[t] = "done" =>
                     result[t] = <<LegacyMetadataAnswer(invs[t][2].result[1])>>
           ELSE /\ Len(invs[t]) = 1
                /\ pc[t] = "done"
                /\ result[t] = <<Err(invs[t][1].result[1].err)>>

\* A request answered with the tables of the dump after the structured call
\* failed with the complaint
C3_Witness ==
    \E t \in Threads :
        /\ pc[t] = "done" /\ req[t].op = "metadata"
        /\ Len(invs[t]) = 2
        /\ ~invs[t][1].result[1].ok
        /\ invs[t][1].outcome = "nonzero"
        /\ result[t][1].ok
        /\ ContainsText(result[t][1].val[1], <<"\"","n","a","m","e","\"",":","\"","t","\"">>)

\* C4: metadata, once it has acted on a structured call that succeeded: a
\* body whose first character that is no whitespace is { or [ is returned
\* unchanged without another call; any other body that holds 'unknown command'
\* leads to the dump call; any other body without it ends the command with an
\* error, which is 'granitectl returned no metadata' exactly when the body
\* holds nothing but whitespace.
C4_MetadataSuccessBody ==
    \A t \in Threads :
        (/\ req[t].op = "metadata"
         /\ FirstReturned(t) /\ invs[t][1].result[1].ok
         /\ Handled(t))
        => LET body == invs[t][1].result[1].val[1].stdout
           IN  IF StartsStructured(body)
               THEN /\ Len(invs[t]) = 1
                    /\ pc[t] = "done"
                    /\ result[t] = <<Ok(body)>>
               ELSE IF IsUnknownCommand(body)
               THEN /\ Len(invs[t]) = 2
                    /\ invs[t][2].args = <<<<"d","u","m","p">>, DbPath>>
                    /\ pc[t] = "done" =>
                         result[t] = <<LegacyMetadataAnswer(invs[t][2].result[1])>>
               ELSE /\ Len(invs[t]) = 1
                    /\ pc[t] = "done"
                    /\ ~result[t][1].ok
                    /\ (result[t][1].err = <<"g","r","a","n","i","t","e","c","t","l"," ","r","e","t","u","r","n","e","d"," ","n","o"," ","m","e","t","a","d","a","t","a">>) <=> AllWs(body)

\* A body returned unchanged although whitespace comes before its bracket
C4_Witness ==
    \E t \in Threads :
        /\ pc[t] = "done" /\ req[t].op = "metadata"
        /\ Len(invs[t]) = 1 /\ invs[t][1].result[1].ok
        /\ invs[t][1].result[1].val[1].stdout # <<>>
        /\ IsWs(invs[t][1].result[1].val[1].stdout[1])
        /\ result[t] = <<Ok(invs[t][1].result[1].val[1].stdout)>>

\* The condition a command makes its second call on, for the result of its
\* first
FallbackDue(t) ==
    LET r == invs[t][1].result[1]
    IN  \/ /\ req[t].op = "exec_sql" /\ req[t].format = JsonRows
           /\ ~r.ok /\ IsRejection(r.err)
        \/ /\ req[t].op = "metadata"
           /\ \/ ~r.ok /\ IsUnknownCommand(r.err)
              \/ /\ r.ok /\ ~StartsStructured(r.val[1].stdout)
                 /\ IsUnknownCommand(r.val[1].stdout)

\* The errors a command returns before it would call run_granitectl
RejectedBeforeCall(t) ==
    /\ ~result[t][1].ok
    /\ \/ result[t][1].err \in {Msg.SqlEmpty, Msg.DbNotFound, Msg.DbExists,
                               Msg.ParentDir \o OsError}
       \/ /\ req[t].op = "exec_sql"
          /\ result[t][1].err = Msg.UnsupportedFormat \o req[t].format

\* Calls of one request come one after the other
CallsInOrder(t) == \A i \in 1..(Len(invs[t]) - 1) : invs[t][i].outcome # "pending"

\* The error of a failed second call is what the command returns
LegacyFailureReturned(t) ==
    (Len(invs[t]) = 2 /\ pc[t] = "done" /\ ~invs[t][2].result[1].ok)
    => result[t] = <<Err(invs[t][2].result[1].err)>>

\* C5, as the specification states it: every request makes one call of the
\* tool, or two, the second after the first has returned; no call that timed
\* out or could not be spawned is followed by another; a failed legacy call
\* is not made again.
C5_AsStated ==
    \A t \in Threads :
        req[t].op \in Requests
        => /\ pc[t] = "done" => Len(invs[t]) \in {1, 2}
           /\ Len(invs[t]) <= 2
           /\ CallsInOrder(t)
           /\ \A i \in 1..Len(invs[t]) :
                 invs[t][i].outcome \in {"timeout", "spawn_notfound", "spawn_err"}
                 => i = Len(invs[t])
           /\ LegacyFailureReturned(t)

\* C5, as the code has it: a request makes at most two calls of
\* run_granitectl, one after the other: none for open_db and for a request
\* rejected before its call, and two exactly when the result of the first
\* meets the fallback condition of the command; a call that timed out is
\* never followed by another, a call that could not be spawned is followed by
\* the legacy call only when its message meets that condition, and the error
\* of a failed legacy call is returned with no further call.
C5_AtMostTwoCalls ==
    \A t \in Threads :
        req[t].op \in Requests
        => /\ Len(invs[t]) <= 2
           /\ CallsInOrder(t)
           /\ req[t].op = "open_db" => Len(invs[t]) = 0
           /\ Len(invs[t]) = 0 =>
                /\ pc[t] = "done"
                /\ req[t].op = "open_db" \/ RejectedBeforeCall(t)
           /\ Len(invs[t]) = 2 => FallbackDue(t)
           /\ (Len(invs[t]) = 1 /\ pc[t] = "done") => ~FallbackDue(t)
           /\ \A i \in 1..Len(invs[t]) :
                 invs[t][i].outcome = "timeout" => i = Len(invs[t])
           /\ (Len(invs[t]) = 2 /\ invs[t][2].outcome # "pending")
                => pc[t] \in {"returned", "done"}
           /\ LegacyFailureReturned(t)

\* A legacy call made after a spawn that found no executable, the message of
\* which holds a phrase of the fallback through the path it names
C5_Witness ==
    \E t \in Threads :
        /\ req[t].op \in Requests
        /\ Len(invs[t]) = 2
        /\ invs[t][1].outcome = "spawn_notfound"
        /\ invs[t][2].outcome # "pending"

\* C6: a call of run_granitectl waits out its budget of 60 seconds exactly
\* when the child runs that long or longer; after such a wait the call reads
\* no output, issues the kill before it returns, and returns the error
\* 'granitectl timed out' with no value, which is all the command returns.
C6_TimeoutKillsAndReturnsError ==
    \A t \in Threads :
        \A i \in 1..Len(invs[t]) :
            LET c == invs[t][i]
            IN  /\ c.waited = "exited" => c.ran < 60
                /\ c.waited = "timeout" =>
                     /\ c.ran >= 60
                     /\ c.captured = <<>>
                     /\ c.child # "kill_issued" => (pc[t] = "kill_timeout" /\ i = Len(invs[t]))
                     /\ c.outcome # "pending" =>
                          /\ c.outcome = "timeout"
                          /\ c.child = "kill_issued"
                          /\ c.result = <<[ok |-> FALSE, val |-> <<>>,
                                           err |-> <<"g","r","a","n","i","t","e","c","t","l"," ","t","i","m","e","d"," ","o","u","t">>]>>
                     /\ i = Len(invs[t])
                     /\ pc[t] = "done" =>
                          result[t] = <<[ok |-> FALSE, val |-> <<>>,
                                         err |-> <<"g","r","a","n","i","t","e","c","t","l"," ","t","i","m","e","d"," ","o","u","t">>]>>

\* A request ended by the time-out of a child that had written output
C6_Witness ==
    \E t \in Threads :
        /\ pc[t] = "done"
        /\ Len(invs[t]) >= 1
        /\ Cur(t).waited = "timeout"
        /\ Cur(t).partial # <<>>
        /\ Cur(t).child = "kill_issued"

\* The call of thread t is past command.spawn()
PastSpawn(t, i) ==
    \/ i < Len(invs[t])
    \/ pc[t] \notin {"resolve", "log", "logwrite", "precheck", "spawn"}

\* C7: in run_granitectl, for the sources Environment and Default a spawn is
\* attempted only after the path was found to exist, and a missing path
\* returns, with no spawn, the error 'granitectl executable not found at
\* <path>. ...'; for the source System the existence of the path is never
\* looked at, a call that goes on always attempts the spawn, and a spawn that
\* finds no executable returns the error 'granitectl executable was not found
\* on PATH. ...'.
C7_PrecheckBySource ==
    \A t \in Threads :
        req[t].op \in Requests =>
        \A i \in 1..Len(invs[t]) :
            LET c == invs[t][i]
            IN  /\ c.source \in {"Environment", "Default"} =>
                     /\ c.spawn # "none" => c.prechecked = "found"
                     /\ PastSpawn(t, i) => c.prechecked # "no"
                     /\ c.prechecked = "missing" =>
                          /\ c.spawn = "none" /\ c.child = "none"
                          /\ c.outcome = "missing"
                          /\ ~c.result[1].ok
                          /\ c.result[1].err =
                               <<"g","r","a","n","i","t","e","c","t","l"," ","e","x","e","c","u","t","a","b","l","e"," ","n","o","t"," ","f","o","u","n","d"," ","a","t"," ">> \o c.path
                               \o (IF c.source = "Environment"
                                   THEN <<"."," ","U","p","d","a","t","e"," ","G","R","A","N","I","T","E","C","T","L","_","P","A","T","H"," ","o","r"," ","b","u","i","l","d"," ","t","h","e"," ","e","n","g","i","n","e",".">>
                                   ELSE <<"."," ","B","u","i","l","d"," ","t","h","e"," ","e","n","g","i","n","e"," ","o","r"," ","s","e","t"," ","G","R","A","N","I","T","E","C","T","L","_","P","A","T","H",".">>)
                /\ c.source = "System" =>
                     /\ c.prechecked = "no"
                     /\ PastSpawn(t, i) => c.spawn # "none"
                     /\ c.spawn = "notfound" =>
                          /\ c.outcome = "spawn_notfound"
                          /\ c.result[1].err =
                               <<"g","r","a","n","i","t","e","c","t","l"," ","e","x","e","c","u","t","a","b","l","e"," ","w","a","s"," ","n","o","t"," ","f","o","u","n","d"," ","o","n"," ","P","A","T","H","."," ","B","u","i","l","d"," ","t","h","e"," ","e","n","g","i","n","e"," ","o","r"," ","s","e","t"," ","G","R","A","N","I","T","E","C","T","L","_","P","A","T","H",".">>

\* A call that found no executable on the search path, by its spawn
C7_Witness ==
    \E t \in Threads :
        /\ req[t].op \in Requests
        /\ Len(invs[t]) >= 1
        /\ Cur(t).source = "System"
        /\ Cur(t).prechecked = "no"
        /\ Cur(t).spawn = "notfound"
        /\ Cur(t).outcome = "spawn_notfound"

\* C8, as the specification states it: a child that exits with a failure
\* status makes the call return an error and no value, the error being the
\* captured standard error character for character when that is not empty
\* and the generic message when it is empty.
C8_AsStated ==
    \A t \in Threads :
        \A i \in 1..Len(invs[t]) :
            LET c == invs[t][i]
            IN  (c.outcome # "pending" /\ c.captured # <<>> /\ ~c.captured[1].success)
                => /\ ~c.result[1].ok /\ c.result[1].val = <<>>
                   /\ c.result[1].err =
                        IF c.captured[1].stderr # <<>> THEN c.captured[1].stderr
                        ELSE <<"g","r","a","n","i","t","e","c","t","l"," ","r","e","t","u","r","n","e","d"," ","a","n"," ","e","r","r","o","r">>

\* C8, as the code has it: a child that exits with a failure status makes the
\* call return an error and no value, the error being the captured standard
\* error without the whitespace at its two ends when something is left of it,
\* and the generic message when the standard error is empty or whitespace
\* only.
C8_FailureCarriesTrimmedStderr ==
    \A t \in Threads :
        \A i \in 1..Len(invs[t]) :
            LET c == invs[t][i]
            IN  (c.outcome # "pending" /\ c.captured # <<>> /\ ~c.captured[1].success)
                => /\ c.outcome = "nonzero"
                   /\ ~c.result[1].ok /\ c.result[1].val = <<>>
                   /\ IF AllWs(c.captured[1].stderr)
                      THEN c.result[1].err = <<"g","r","a","n","i","t","e","c","t","l"," ","r","e","t","u","r","n","e","d"," ","a","n"," ","e","r","r","o","r">>
                      ELSE IsTrimOf(c.result[1].err, c.captured[1].stderr)

\* A failed child whose standard error had whitespace around its text
C8_Witness ==
    \E t \in Threads :
        /\ Len(invs[t]) >= 1
        /\ Cur(t).outcome = "nonzero"
        /\ Cur(t).captured[1].stderr = <<" ","b","o","o","m","\n">>
        /\ Cur(t).result[1].err = <<"b","o","o","m">>

\* The directory of a path: what comes before its last slash
DirOf(p) == SubSeq(p, 1, SetMax({i \in 1..Len(p) : p[i] = "/"}) - 1)

\* C9: the step that resolves the executable gives the value of
\* GRANITECTL_PATH with the source Environment when the variable is set and
\* not empty; when it is unset or empty, the path
\* <directory of the program>/../engine/granitectl with the source Default if
\* the location of the running program is known, and the bare name granitectl
\* with the source System if it is not.
C9_ResolutionPriority ==
    [][\A t \in Threads :
          (pc[t] = "resolve" /\ pc'[t] = "log")
          => LET c == invs'[t][Len(invs'[t])]
             IN  IF env # <<>> /\ env[1] # <<>>
                 THEN c.path = env[1] /\ c.source = "Environment"
                 ELSE IF currentExe # <<>>
                 THEN /\ c.path = DirOf(currentExe[1]) \o <<"/",".",".","/","e","n","g","i","n","e","/","g","r","a","n","i","t","e","c","t","l">>
                      /\ c.source = "Default"
                 ELSE c.path = <<"g","r","a","n","i","t","e","c","t","l">> /\ c.source = "System"]_vars

\* A call resolved to the default build path while the variable is set to the
\* empty string
C9_Witness ==
    \E t \in Threads :
        /\ pc[t] = "log"
        /\ env = << <<>> >>
        /\ Cur(t).source = "Default"
        /\ Cur(t).path = <<"/","a","p","p","/","b","i","n","/",".",".","/","e","n","g","i","n","e","/","g","r","a","n","i","t","e","c","t","l">>

\* Thread t has come out of log_granitectl_resolution in its request
PastLog(t) ==
    \/ Len(invs[t]) >= 2
    \/ Len(invs[t]) = 1 /\ pc[t] \notin {"resolve", "log", "logwrite"}

\* C10: with requests on several threads, the resolution line is printed at
\* most once, and exactly once as soon as one caller has come out of
\* log_granitectl_resolution; at most one caller runs the closure, the line
\* it prints holds its own resolution, and the others go on without printing.
C10_LoggedOnce ==
    /\ Len(logLines) <= 1
    /\ Cardinality({t \in Threads : pc[t] = "logwrite"}) <= 1
    /\ (logOnce = "uninit") = (logLines = <<>> /\ \A t \in Threads : pc[t] # "logwrite")
    /\ (logOnce = "running") = (\E t \in Threads : pc[t] = "logwrite")
    /\ (logOnce = "done") = (Len(logLines) = 1)
    /\ logOnce = "running" => logLines = <<>>
    /\ \A t \in Threads : PastLog(t) => Len(logLines) = 1

\* Two threads past the log, one of them with a path that is not the logged
\* one
C10_Witness ==
    /\ Len(logLines) = 1
    /\ \A t \in Threads : PastLog(t) /\ Len(invs[t]) >= 1
    /\ \E t \in Threads : Cur(t).path # logLines[1].path
    /\ \E t \in Threads : Cur(t).path = logLines[1].path

----------------------------------------------------------------------------
(* The properties of the legacy parsers, under SpecLegacy *)

\* The decimal numeral of a number below 10
Decimal(n) == <<SubSeq(<<"0","1","2","3","4","5","6","7","8","9">>, n + 1, n + 1)[1]>>

\* e is s without the whitespace at its two ends, also when nothing is left
TrimmedTo(e, s) == IF AllWs(s) THEN e = <<>> ELSE IsTrimOf(e, s)

\* exec_sql has answered from the output of its legacy call
LegacyExecDone ==
    /\ pc[MainThread] = "done" /\ req[MainThread].op = "exec_sql"
    /\ Len(invs[MainThread]) = 2 /\ invs[MainThread][2].outcome = "ok"

\* The text the legacy call of exec_sql printed
LegacyExecText == invs[MainThread][2].captured[1].stdout

\* The answer of exec_sql, and its payload when it is a success
ExecAnswer == result[MainThread][1]

ExecPayload == ExecAnswer.val[1].result[1]

\* Every table of the legacy specification with its text
PrintedTables == {[table |-> tb, text |-> table_text(tb)] : tb \in LegacyTables}

\* Every data row of tb has as many cells as the header
WellFormed(tb) == \A i \in 1..Len(tb.rows) : Len(tb.rows[i]) = Len(tb.header)

\* The answer for the table tb holds its header and its rows, trimmed, in the
\* order printed, says n rows and tells a duration of the model
AnswersTable(tb, n) ==
    /\ ExecAnswer.ok
    /\ Len(ExecPayload.columns) = Len(tb.header)
    /\ \A i \in 1..Len(tb.header) : TrimmedTo(ExecPayload.columns[i], tb.header[i])
    /\ Len(ExecPayload.rows) = Len(tb.rows)
    /\ \A i \in 1..Len(tb.rows) :
          /\ Len(ExecPayload.rows[i]) = Len(tb.rows[i])
          /\ \A j \in 1..Len(tb.rows[i]) : TrimmedTo(ExecPayload.rows[i][j], tb.rows[i][j])
    /\ ExecPayload.rows_affected = <<Decimal(n)>>
    /\ ExecPayload.message = <<Decimal(n) \o <<" ","r","o","w","(","s",")">>>>
    /\ ExecPayload.duration_ms \in Durations

\* C11: for every output made of a header, a separator, n >= 1 data rows each
\* with as many cells as the header, and the trailer '(n row(s))', the answer
\* has the trimmed header cells as columnNames, the trimmed cells of the data
\* rows in the order printed, rowsAffected = n and statusMessage 'n row(s)'.
C11_AsStated ==
    LegacyExecDone =>
        \A p \in PrintedTables :
            (/\ LegacyExecText = p.text
             /\ Len(p.table.rows) >= 1 /\ WellFormed(p.table)
             /\ p.table.trailer = <<Decimal(Len(p.table.rows))>>)
            => AnswersTable(p.table, Len(p.table.rows))

\* The same for the tables without a data row that is blank as a line
C11_ExceptBlankRows ==
    LegacyExecDone =>
        \A p \in PrintedTables :
            (/\ LegacyExecText = p.text
             /\ Len(p.table.rows) >= 1 /\ WellFormed(p.table)
             /\ \A i \in 1..Len(p.table.rows) : ~AllWs(table_line(p.table.rows[i]))
             /\ p.table.trailer = <<Decimal(Len(p.table.rows))>>)
            => AnswersTable(p.table, Len(p.table.rows))

\* A numeral of a number above zero
PositiveNumeral(n) ==
    /\ n # <<>>
    /\ \A i \in 1..Len(n) : n[i] \in {"0","1","2","3","4","5","6","7","8","9"}
    /\ \E i \in 1..Len(n) : n[i] # "0"

\* C12: in every successful answer of the legacy exec parser rowsAffected is
\* absent or above zero; a header, a separator, no data row and the trailer
\* '(0 row(s))' give the header's columns, no rows, rowsAffected absent and
\* the statusMessage '0 row(s)'.
C12_RowsAffectedAbsentOrPositive ==
    (LegacyExecDone /\ ExecAnswer.ok) =>
        /\ \/ ExecPayload.rows_affected = <<>>
           \/ /\ Len(ExecPayload.rows_affected) = 1
              /\ PositiveNumeral(ExecPayload.rows_affected[1])
        /\ \A p \in PrintedTables :
              (/\ LegacyExecText = p.text
               /\ p.table.rows = <<>> /\ p.table.trailer = <<<<"0">>>>)
              => /\ Len(ExecPayload.columns) = Len(p.table.header)
                 /\ ExecPayload.rows = <<>>
                 /\ ExecPayload.rows_affected = <<>>
                 /\ ExecPayload.message = <<<<"0"," ","r","o","w","(","s",")">>>>

\* The answer for a table of two columns, no data row and the trailer
\* '(0 row(s))'
C12_Witness ==
    /\ LegacyExecDone /\ ExecAnswer.ok
    /\ LegacyExecText = <<"i","d"," ","|"," "," ","n","m"," ","\n","-","-","-","\n","(","0"," ","r","o","w","(","s",")",")","\n">>
    /\ ExecPayload.columns = <<<<"i","d">>, <<"n","m">>>>
    /\ ExecPayload.rows_affected = <<>>

\* The number a numeral of digits stands for
RECURSIVE NumeralValue(_)
NumeralValue(n) ==
    IF n = <<>> THEN 0
    ELSE 10 * NumeralValue(SubSeq(n, 1, Len(n) - 1))
         + (CHOOSE d \in 0..9 : Decimal(d) = <<n[Len(n)]>>)

\* rowsAffected and statusMessage are those of a trailer that counts c
ByTrailer(c) ==
    /\ ExecPayload.rows_affected = IF c > 0 THEN <<Decimal(c)>> ELSE <<>>
    /\ ExecPayload.message = <<Decimal(c) \o <<" ","r","o","w","(","s",")">>>>

\* rowsAffected and statusMessage are those of n data rows
ByDataRows(n) ==
    /\ ExecPayload.rows_affected = IF n > 0 THEN <<Decimal(n)>> ELSE <<>>
    /\ ExecPayload.message = <<Decimal(n) \o <<" ","r","o","w","(","s",")">>>>

\* C13: rowsAffected is derived from the number of data rows only when the
\* output has no trailer; with a trailer '(<count> row(s))' rowsAffected and
\* statusMessage are determined by the trailer's count alone (rowsAffected =
\* count if count > 0, absent if count = 0, statusMessage '<count> row(s)'),
\* however many data rows precede it.
C13_AsStated ==
    (LegacyExecDone /\ ExecAnswer.ok) =>
        \A p \in PrintedTables :
            LegacyExecText = p.text =>
                IF p.table.trailer = <<>>
                THEN ByDataRows(Len(ExecPayload.rows))
                ELSE ByTrailer(NumeralValue(p.table.trailer[1]))

\* The same but for the trailer '(0 row(s))' after data rows
C13_ExceptZeroCountWithRows ==
    (LegacyExecDone /\ ExecAnswer.ok) =>
        \A p \in PrintedTables :
            (/\ LegacyExecText = p.text
             /\ ~(/\ p.table.trailer # <<>>
                  /\ NumeralValue(p.table.trailer[1]) = 0
                  /\ ExecPayload.rows # <<>>))
            => IF p.table.trailer = <<>>
               THEN ByDataRows(Len(ExecPayload.rows))
               ELSE ByTrailer(NumeralValue(p.table.trailer[1]))

IsDigit(c) == c \in {"0","1","2","3","4","5","6","7","8","9"}

\* The numeral n without the zeros it begins with, "0" for zeros only
Canonical(n) ==
    IF \A i \in 1..Len(n) : n[i] = "0" THEN <<"0">>
    ELSE SubSeq(n, CHOOSE i \in 1..Len(n) : n[i] # "0" /\ \A k \in 1..(i - 1) : n[k] = "0",
                Len(n))

\* The canonical numeral n stands for a number of at most 64 bits
FitsU64(n) ==
    \/ Len(n) < 20
    \/ /\ Len(n) = 20
       /\ \/ n = <<"1","8","4","4","6","7","4","4","0","7","3","7","0","9","5","5","1","6","1","5">>
          \/ \E i \in 1..20 :
                /\ \A k \in 1..(i - 1) : n[k] = <<"1","8","4","4","6","7","4","4","0","7","3","7","0","9","5","5","1","6","1","5">>[k]
                /\ NumeralValue(<<n[i]>>) < NumeralValue(<<<<"1","8","4","4","6","7","4","4","0","7","3","7","0","9","5","5","1","6","1","5">>[i]>>)

\* rowsAffected is the number of the run of digits m[i..j], when that number
\* fits 64 bits and is above zero, and is absent otherwise
CountsRun(m, i, j) ==
    ExecPayload.rows_affected =
        IF FitsU64(Canonical(SubSeq(m, i, j))) /\ Canonical(SubSeq(m, i, j)) # <<"0">>
        THEN <<Canonical(SubSeq(m, i, j))>>
        ELSE <<>>

\* m[i..j] is a run of digits of m that no digit follows
EndsRun(m, i, j) ==
    /\ \A k \in i..j : IsDigit(m[k])
    /\ j = Len(m) \/ ~IsDigit(m[j + 1])

\* C14, as stated: when the output is exactly one non-empty line that does not
\* begin with '(', the answer has no columns and no rows, a statusMessage
\* equal to that line, and rowsAffected equal to the value of the run of
\* digits the message begins with when that value is above zero, absent
\* otherwise.
C14_AsStated ==
    LegacyExecDone =>
        \A s \in LegacyStatuses :
            LegacyExecText = s.before \o s.line \o s.after =>
                /\ ExecAnswer.ok
                /\ ExecPayload.columns = <<>> /\ ExecPayload.rows = <<>>
                /\ ExecPayload.message = <<s.line>>
                /\ IF IsDigit(s.line[1])
                   THEN \E j \in 1..Len(s.line) :
                            EndsRun(s.line, 1, j) /\ CountsRun(s.line, 1, j)
                   ELSE ExecPayload.rows_affected = <<>>

\* C14, amended: when the output is exactly one non-empty line that does not
\* begin with '(', the answer has no columns and no rows, a statusMessage
\* equal to that line without the whitespace at its two ends, and rowsAffected
\* equal to the value of the first run of digits anywhere in the message when
\* that value fits 64 bits and is above zero, absent otherwise.
C14_StatusLine ==
    LegacyExecDone =>
        \A s \in LegacyStatuses :
            LegacyExecText = s.before \o s.line \o s.after =>
                /\ ExecAnswer.ok
                /\ ExecPayload.columns = <<>> /\ ExecPayload.rows = <<>>
                /\ Len(ExecPayload.message) = 1
                /\ IsTrimOf(ExecPayload.message[1], s.line)
                /\ IF \E i \in 1..Len(s.line) : IsDigit(s.line[i])
                   THEN \E i, j \in 1..Len(s.line) :
                            /\ \A k \in 1..(i - 1) : ~IsDigit(s.line[k])
                            /\ i <= j /\ EndsRun(s.line, i, j)
                            /\ CountsRun(s.line, i, j)
                   ELSE ExecPayload.rows_affected = <<>>

\* The answer for the status line 'inserted 3 rows' says three rows
C14_Witness ==
    /\ LegacyExecDone /\ ExecAnswer.ok
    /\ LegacyExecText = <<"i","n","s","e","r","t","e","d"," ","3"," ","r","o","w","s","\n">>
    /\ ExecPayload.message = <<<<"i","n","s","e","r","t","e","d"," ","3"," ","r","o","w","s">>>>
    /\ ExecPayload.rows_affected = <<<<"3">>>>

\* C15: in every answer of the legacy exec parser each row has as many
\* cells as there are columnNames; when a data row of the table has another
\* number of cells than the header, the parser fails with 'row column count
\* mismatch' and gives no result, however many well-formed rows precede it.
C15_RowLengthsMatchHeader ==
    LegacyExecDone =>
        /\ ExecAnswer.ok =>
              \A i \in 1..Len(ExecPayload.rows) :
                  Len(ExecPayload.rows[i]) = Len(ExecPayload.columns)
        /\ \A p \in PrintedTables :
              (LegacyExecText = p.text /\ ~WellFormed(p.table))
              => /\ ~ExecAnswer.ok
                 /\ ExecAnswer.val = <<>>
                 /\ ExecAnswer.err = <<"r","o","w"," ","c","o","l","u","m","n"," ","c","o","u","n","t"," ","m","i","s","m","a","t","c","h">>

\* A table whose second data row has a cell too many, after a well-formed
\* row, is answered with the error
C15_Witness ==
    /\ LegacyExecDone
    /\ LegacyExecText = <<"i","d"," ","|"," "," ","n","m"," ","\n","-","-","-","\n","1"," ","|"," ","1","\n","1"," ","|"," ","1"," ","|"," ","1","\n","(","2"," ","r","o","w","(","s",")",")","\n">>
    /\ ExecAnswer = Err(<<"r","o","w"," ","c","o","l","u","m","n"," ","c","o","u","n","t"," ","m","i","s","m","a","t","c","h">>)

\* metadata has answered from the output of its dump call
LegacyMetadataDone ==
    /\ pc[MainThread] = "done" /\ req[MainThread].op = "metadata"
    /\ Len(invs[MainThread]) = 2 /\ invs[MainThread][2].outcome = "ok"

\* The text the dump call of metadata printed
LegacyDumpText == invs[MainThread][2].captured[1].stdout

\* The answer of metadata
MetadataAnswer == result[MainThread][1]

\* Every dump with the line 'No tables defined', with its text
PrintedSentinelDumps ==
    {[dump |-> d, text |-> sentinel_dump_text(d)] : d \in SentinelDumps}

\* Among the lines ls there is a header of a table without its count, or a
\* column without its type in a table that a header has opened
HoldsMalformedLine(ls) ==
    \E i \in 1..Len(ls) :
        \/ ls[i] = <<"T","a","b","l","e"," ","t">>
        \/ /\ ls[i] = <<" "," ","-"," ","i","d">>
           /\ \E k \in 1..(i - 1) : ls[k] = <<"T","a","b","l","e"," ","t"," ","(","2"," ","r","o","w","(","s",")",")">>

\* C16, as stated: every dump that holds a line equal to 'No tables defined'
\* is answered with the snapshot of no tables, wherever the line stands and
\* whichever lines (headers of tables, columns, malformed lines) precede or
\* follow it.
C16_AsStated ==
    LegacyMetadataDone =>
        \A p \in PrintedSentinelDumps :
            LegacyDumpText = p.text => MetadataAnswer = Ok(<<"{","\"","t","a","b","l","e","s","\"",":","[","]","}">>)

\* C16, amended: a dump that holds a line equal to 'No tables defined' is
\* answered with the snapshot of no tables when no malformed line precedes
\* the first such line, whichever well-formed or ignored lines precede it and
\* whichever lines, malformed ones too, follow it; when a malformed line
\* precedes it, the parser fails.
C16_SentinelAfterWellFormedLines ==
    LegacyMetadataDone =>
        \A p \in PrintedSentinelDumps :
            LegacyDumpText = p.text =>
                IF HoldsMalformedLine(p.dump.before)
                THEN ~MetadataAnswer.ok
                ELSE MetadataAnswer = Ok(<<"{","\"","t","a","b","l","e","s","\"",":","[","]","}">>)

\* The snapshot of no tables for a dump with a table and its column before
\* the line, and a malformed header after it
C16_Witness ==
    /\ LegacyMetadataDone
    /\ LegacyDumpText = <<"T","a","b","l","e"," ","t"," ","(","2"," ","r","o","w","(","s",")",")","\n"," "," ","-"," ","i","d"," ","I","N","T","\n","N","o"," ","t","a","b","l","e","s"," ","d","e","f","i","n","e","d","\n","T","a","b","l","e"," ","t","\n">>
    /\ MetadataAnswer = Ok(<<"{","\"","t","a","b","l","e","s","\"",":","[","]","}">>)

\* Every dump of tables, with its text
PrintedTableDumps == {[dump |-> d, text |-> table_dump_text(d)] : d \in TableDumps}

\* The column a line of the dump stands for
ColumnOf(c) ==
    [name |-> c.name, column_type |-> c.column_type,
     not_null |-> \E i \in 1..Len(c.markers) : c.markers[i] = <<" ","N","O","T"," ","N","U","L","L">>,
     primary |-> \E i \in 1..Len(c.markers) : c.markers[i] = <<" ","P","R","I","M","A","R","Y"," ","K","E","Y">>]

\* The entries of a section as printed: none when the section is not printed
EntriesOf(section) == IF section = <<>> THEN <<>> ELSE section[1]

\* The table of the snapshot for a table of the dump: a section is absent
\* when it has no entries, and holds its entries otherwise
TableOf(tb) ==
    [name |-> tb.name, row_count |-> tb.row_count,
     columns |-> [i \in 1..Len(tb.columns) |-> ColumnOf(tb.columns[i])],
     indexes |-> IF EntriesOf(tb.indexes) = <<>> THEN <<>>
                 ELSE <<[i \in 1..Len(EntriesOf(tb.indexes)) |-> EntriesOf(tb.indexes)[i].index]>>,
     fks |-> IF EntriesOf(tb.fks) = <<>> THEN <<>>
             ELSE <<[i \in 1..Len(EntriesOf(tb.fks)) |-> EntriesOf(tb.fks)[i].fk]>>]

\* C17: in the snapshot of a dump, a table's indexes (foreign keys) are absent
\* exactly when no index (foreign-key) entry was collected for it, and hold
\* the collected entries otherwise; they are never present as an empty
\* sequence, also when the marker of the section was printed without entries.
C17_EmptySectionsAbsent ==
    LegacyMetadataDone =>
        /\ MetadataAnswer.ok =>
              /\ ~ContainsText(MetadataAnswer.val[1], <<"\"","i","n","d","e","x","e","s","\"",":","[","]">>)
              /\ ~ContainsText(MetadataAnswer.val[1], <<"\"","f","k","s","\"",":","[","]">>)
              /\ ~ContainsText(MetadataAnswer.val[1], <<"n","u","l","l">>)
        /\ \A p \in PrintedTableDumps :
              LegacyDumpText = p.text =>
                 /\ MetadataAnswer =
                       Ok(json_metadata([tables |-> [i \in 1..Len(p.dump) |-> TableOf(p.dump[i])]]))
                 /\ ContainsText(MetadataAnswer.val[1], <<"\"","i","n","d","e","x","e","s","\"",":","[","{">>)
                       <=> \E i \in 1..Len(p.dump) : EntriesOf(p.dump[i].indexes) # <<>>
                 /\ ContainsText(MetadataAnswer.val[1], <<"\"","i","n","d","e","x","e","s","\"">>)
                       <=> \E i \in 1..Len(p.dump) : EntriesOf(p.dump[i].indexes) # <<>>
                 /\ ContainsText(MetadataAnswer.val[1], <<"\"","f","k","s","\"",":","[","{">>)
                       <=> \E i \in 1..Len(p.dump) : EntriesOf(p.dump[i].fks) # <<>>
                 /\ ContainsText(MetadataAnswer.val[1], <<"\"","f","k","s","\"">>)
                       <=> \E i \in 1..Len(p.dump) : EntriesOf(p.dump[i].fks) # <<>>

\* The snapshot of a table whose two markers were printed without entries,
\* followed by a table with an index
C17_Witness ==
    /\ LegacyMetadataDone
    /\ LegacyDumpText =
         <<"T","a","b","l","e"," ","t"," ","(","2"," ","r","o","w","(","s",")",")","\n"," "," ","-"," ","i","d"," ","I","N","T","\n"," "," ","I","n","d","e","x","e","s",":","\n"," "," ","F","o","r","e","i","g","n"," ","K","e","y","s",":","\n","T","a","b","l","e"," ","t"," ","(","2"," ","r","o","w","(","s",")",")","\n"," "," ","-"," ","i","d"," ","I","N","T","\n"," "," ","I","n","d","e","x","e","s",":","\n"," "," "," "," ","-"," ","i","x","_","i","d"," ","(","i","d",")"," ","U","N","I","Q","U","E","\n">>
    /\ MetadataAnswer =
         Ok(<<"{","\"","t","a","b","l","e","s","\"",":","[","{","\"","n","a","m","e","\"",":","\"","t","\"",",","\"","r","o","w","C","o","u","n","t","\"",":","2",",","\"","c","o","l","u","m","n","s","\"",":","[","{","\"","n","a","m","e","\"",":","\"","i","d","\"",",","\"","t","y","p","e","\"",":","\"","I","N","T","\"",",","\"","n","o","t","N","u","l","l","\"",":","f","a","l","s","e",",","\"","p","k","\"",":","f","a","l","s","e","}","]","}",",","{","\"","n","a","m","e","\"",":","\"","t","\"",",","\"","r","o","w","C","o","u","n","t","\"",":","2",",","\"","c","o","l","u","m","n","s","\"",":","[","{","\"","n","a","m","e","\"",":","\"","i","d","\"",",","\"","t","y","p","e","\"",":","\"","I","N","T","\"",",","\"","n","o","t","N","u","l","l","\"",":","f","a","l","s","e",",","\"","p","k","\"",":","f","a","l","s","e","}","]",",","\"","i","n","d","e","x","e","s","\"",":","[","{","\"","n","a","m","e","\"",":","\"","i","x","_","i","d","\"",",","\"","c","o","l","u","m","n","s","\"",":","[","\"","i","d","\"","]",",","\"","u","n","i","q","u","e","\"",":","t","r","u","e","}","]","}","]","}">>)

\* true or false as JSON writes them
JsonBool(b) == IF b THEN <<"t","r","u","e">> ELSE <<"f","a","l","s","e">>

\* The snapshot of one table 't' of 2 rows with the one column given
OneColumnSnapshot(name, type, not_null, primary) ==
    <<"{","\"","t","a","b","l","e","s","\"",":","[","{","\"","n","a","m","e","\"",":","\"","t","\"",",","\"","r","o","w","C","o","u","n","t","\"",":","2",",","\"","c","o","l","u","m","n","s","\"",":","[","{","\"","n","a","m","e","\"",":","\"">> \o name
    \o <<"\"",",","\"","t","y","p","e","\"",":","\"">> \o type \o <<"\"",",","\"","n","o","t","N","u","l","l","\"",":">> \o JsonBool(not_null)
    \o <<",","\"","p","k","\"",":">> \o JsonBool(primary) \o <<"}","]","}","]","}">>

\* C18: a column line '<name> <type>' followed by any of ' NOT NULL' and
\* ' PRIMARY KEY', in either order, gives the same name and type as the line
\* without markers, notNull exactly when ' NOT NULL' is there and
\* isPrimaryKey exactly when ' PRIMARY KEY' is there.
C18_ColumnMarkers ==
    LegacyMetadataDone =>
        \A c \in DumpColumns :
            LegacyDumpText = print_lines(<<<<"T","a","b","l","e"," ","t"," ","(","2"," ","r","o","w","(","s",")",")">>, column_line(c)>>)
            => MetadataAnswer =
                  Ok(OneColumnSnapshot(c.name, c.column_type,
                                       <<" ","N","O","T"," ","N","U","L","L">> \in {c.markers[i] : i \in 1..Len(c.markers)},
                                       <<" ","P","R","I","M","A","R","Y"," ","K","E","Y">> \in {c.markers[i] : i \in 1..Len(c.markers)}))

\* The snapshot for a column of a type of two words with ' PRIMARY KEY'
\* before ' NOT NULL'
C18_Witness ==
    /\ LegacyMetadataDone
    /\ LegacyDumpText = <<"T","a","b","l","e"," ","t"," ","(","2"," ","r","o","w","(","s",")",")","\n"," "," ","-"," ","i","d"," ","D","O","U","B","L","E"," ","P","R","E","C","I","S","I","O","N"," ","P","R","I","M","A","R","Y"," ","K","E","Y"," ","N","O","T"," ","N","U","L","L","\n">>
    /\ MetadataAnswer = Ok(OneColumnSnapshot(<<"i","d">>, <<"D","O","U","B","L","E"," ","P","R","E","C","I","S","I","O","N">>, TRUE, TRUE))

----------------------------------------------------------------------------
(* The properties of the commands, under Spec *)

\* C19: granitectl_info never fails; when it says exists = false the version
\* is absent and the error present; when the path comes from the system
\* search path, exists is true exactly when the spawn of '--version'
\* succeeded.
C19_InfoNeverFails ==
    \A t \in Threads :
        (req[t].op = "granitectl_info" /\ pc[t] = "done") =>
            /\ result[t][1].ok
            /\ ~result[t][1].val[1].exists =>
                  /\ result[t][1].val[1].version = <<>>
                  /\ result[t][1].val[1].error # <<>>
            /\ Cur(t).source = "System" =>
                  /\ result[t][1].val[1].source = "System"
                  /\ result[t][1].val[1].exists <=> Cur(t).spawn = "ok"

\* The answer for a path of the system search path whose spawn fails with an
\* error other than not-found: no failure, exists = false, the error told
C19_Witness ==
    \E t \in Threads :
        /\ req[t].op = "granitectl_info" /\ pc[t] = "done"
        /\ Cur(t).source = "System" /\ Cur(t).spawn = "oserr"
        /\ result[t][1].ok
        /\ ~result[t][1].val[1].exists
        /\ result[t][1].val[1].version = <<>>
        /\ result[t][1].val[1].error # <<>>

\* The tokens of the formats exec_sql knows
KnownFormats == {<<"j","s","o","n","R","o","w","s">>, <<"t","a","b","l","e">>, <<"c","s","v">>}

\* The request of thread t has ended with the error err and without a call
\* of the tool
EndedWithoutCall(t, err) ==
    /\ result[t] = <<Err(err)>>
    /\ invs[t] = <<>>

\* exec_sql, explain_sql and export_csv with an empty or blank statement end
\* with 'SQL must not be empty' before any resolution or call
BlankStatementRejected(t) ==
    (/\ req[t].op \in {"exec_sql", "explain_sql", "export_csv"}
     /\ AllWs(req[t].sql))
    => EndedWithoutCall(t, <<"S","Q","L"," ","m","u","s","t"," ","n","o","t"," ","b","e"," ","e","m","p","t","y">>)

\* C20, as stated: exec_sql, explain_sql and export_csv called with an empty
\* or whitespace-only statement fail with the validation error before the
\* tool is resolved or called, and exec_sql called with a format token other
\* than jsonRows, table or csv fails with a validation error and no call of
\* the tool.
C20_AsStated ==
    \A t \in Threads :
        pc[t] = "done" =>
            /\ BlankStatementRejected(t)
            /\ (req[t].op = "exec_sql" /\ req[t].format \notin KnownFormats)
               => \/ EndedWithoutCall(t, <<"S","Q","L"," ","m","u","s","t"," ","n","o","t"," ","b","e"," ","e","m","p","t","y">>)
                  \/ EndedWithoutCall(t, <<"U","n","s","u","p","p","o","r","t","e","d"," ","f","o","r","m","a","t"," ">> \o req[t].format)

\* C20, amended: as stated for the empty statement; exec_sql called with a
\* format token other than jsonRows, table or csv fails with no call of the
\* tool: with the validation error of the empty statement, else with
\* 'Database file not found' when the database file does not exist, else
\* with the validation error 'Unsupported format <token>'.
C20_RejectedBeforeTheTool ==
    \A t \in Threads :
        pc[t] = "done" =>
            /\ BlankStatementRejected(t)
            /\ (req[t].op = "exec_sql" /\ req[t].format \notin KnownFormats)
               => \/ EndedWithoutCall(t, <<"S","Q","L"," ","m","u","s","t"," ","n","o","t"," ","b","e"," ","e","m","p","t","y">>)
                  \/ /\ ~AllWs(req[t].sql)
                     /\ \/ EndedWithoutCall(t, <<"D","a","t","a","b","a","s","e"," ","f","i","l","e"," ","n","o","t"," ","f","o","u","n","d">>)
                        \/ EndedWithoutCall(t, <<"U","n","s","u","p","p","o","r","t","e","d"," ","f","o","r","m","a","t"," ">> \o req[t].format)

\* The format 'xml' given to exec_sql with a statement and a database file
\* that exists: rejected without a call
C20_Witness ==
    \E t \in Threads :
        /\ pc[t] = "done" /\ invs[t] = <<>>
        /\ req[t].op = "exec_sql" /\ req[t].sql = <<"S","E","L","E","C","T"," ","1">>
        /\ req[t].format = <<"x","m","l">>
        /\ result[t] = <<Err(<<"U","n","s","u","p","p","o","r","t","e","d"," ","f","o","r","m","a","t"," ","x","m","l">>)>>

-----------------------------------------------------------------------------
(* The properties of the loop of parse_legacy_metadata, under SpecLegacy *)

\* Every dump of headers alone, with its text
PrintedHeaderDumps == {[dump |-> d, text |-> header_dump_text(d)] : d \in HeaderDumps}

\* The tables of the snapshot of a dump of headers, each without columns
RECURSIVE HeaderTables(_)
HeaderTables(d) ==
    IF d = <<>> THEN <<>>
    ELSE (IF Len(d) > 1 THEN HeaderTables(SubSeq(d, 1, Len(d) - 1)) \o <<",">> ELSE <<>>)
         \o <<"{","\"","n","a","m","e","\"",":","\"">> \o d[Len(d)].name \o <<"\"",",","\"","r","o","w","C","o","u","n","t","\"",":">>
         \o d[Len(d)].row_count[1] \o <<",","\"","c","o","l","u","m","n","s","\"",":","[","]","}">>

\* The number of places of s where p occurs
CountText(s, p) ==
    Cardinality({i \in 1..(Len(s) - Len(p) + 1) : \A k \in 1..Len(p) : s[i + k - 1] = p[k]})

\* C21: the snapshot of a dump without the line 'No tables defined' holds
\* one table for each header 'Table <name> (<count> row(s))', in the order
\* of the headers, with the name and the count of its header (a count of 0
\* stays 0); a header closes the table before it and opens the next one with
\* no column, index or foreign key and with the columns as its section, so
\* that the column printed after it is its own; a header without a
\* parenthesised count, or with a count that is not a non-negative integer,
\* fails the whole parse.
C21_OneTablePerHeader ==
    LegacyMetadataDone =>
        /\ \A p \in PrintedHeaderDumps :
              LegacyDumpText = p.text =>
                 IF \A i \in 1..Len(p.dump) : p.dump[i].row_count # <<>>
                 THEN MetadataAnswer = Ok(<<"{","\"","t","a","b","l","e","s","\"",":","[">> \o HeaderTables(p.dump) \o <<"]","}">>)
                 ELSE ~MetadataAnswer.ok
        /\ \A p \in PrintedTableDumps :
              LegacyDumpText = p.text =>
                 /\ MetadataAnswer.ok
                 /\ CountText(MetadataAnswer.val[1], <<"{","\"","n","a","m","e","\"",":","\"","t","\"",",","\"","r","o","w","C","o","u","n","t","\"",":","2",",">>)
                       = Len(p.dump)
                 /\ CountText(MetadataAnswer.val[1], <<"\"","c","o","l","u","m","n","s","\"",":","[","{","\"","n","a","m","e","\"",":","\"","i","d","\"",",">>)
                       = Len(p.dump)
                 /\ CountText(MetadataAnswer.val[1], <<"\"","i","n","d","e","x","e","s","\"",":","[">>)
                       = Cardinality({i \in 1..Len(p.dump) : EntriesOf(p.dump[i].indexes) # <<>>})

\* Two headers, the first with a count of 0: two tables in that order
C21_Witness ==
    /\ LegacyMetadataDone
    /\ LegacyDumpText = <<"T","a","b","l","e"," ","a"," ","(","0"," ","r","o","w","(","s",")",")","\n","T","a","b","l","e"," ","b"," ","(","1","2"," ","r","o","w","(","s",")",")","\n">>
    /\ MetadataAnswer =
         Ok(<<"{","\"","t","a","b","l","e","s","\"",":","[","{","\"","n","a","m","e","\"",":","\"","a","\"",",","\"","r","o","w","C","o","u","n","t","\"",":","0",",","\"","c","o","l","u","m","n","s","\"",":","[","]","}",",","{","\"","n","a","m","e","\"",":","\"","b","\"",",","\"","r","o","w","C","o","u","n","t","\"",":","1","2",",","\"","c","o","l","u","m","n","s","\"",":","[","]","}","]","}">>)

\* Every dump with lines the loop has no use for, with its text
PrintedNoisyDumps == {[dump |-> d, text |-> noisy_dump_text(d)] : d \in NoisyDumps}

\* The states of the loop of parse_legacy_metadata over the lines ls: the
\* state before the first line, then the state after each line; the loop
\* stays where it is once it has returned
RECURSIVE MetaRun(_)
MetaRun(ls) ==
    LET next(st, line) == IF st.result # <<>> THEN st ELSE legacy_meta_line(st, line)
        extended(run) == Append(run, next(run[Len(run)], ls[Len(ls)]))
    IN  IF ls = <<>> THEN <<LegacyMetaStart>>
        ELSE extended(MetaRun(SubSeq(ls, 1, Len(ls) - 1)))

\* The line is the header of a table, or one of the two markers
IsHeaderLine(line) == starts_with(trim_end(line), <<"T","a","b","l","e"," ">>)

IsMarkerLine(line) == trim_end(line) \in {<<" "," ","I","n","d","e","x","e","s",":">>, <<" "," ","F","o","r","e","i","g","n"," ","K","e","y","s",":">>}

\* The finished tables, the table in progress and the section are the same
\* in the two states of the loop
SameTablesAndMode(before, after) ==
    /\ after.tables = before.tables
    /\ after.current = before.current
    /\ after.section = before.section

\* One line of the loop, from the state before it to the state after it, as
\* C22 has it
ModeStep(before, line, after) ==
    /\ (before.current = <<>> /\ ~IsHeaderLine(line)) => SameTablesAndMode(before, after)
    /\ (before.section = "Columns" /\ after.section # "Columns")
          => before.current # <<>> /\ IsMarkerLine(line)
    /\ (before.section # "Columns" /\ after.section = "Columns") => IsHeaderLine(line)
    /\ (before.section # "Columns" /\ ~IsHeaderLine(line))
          => /\ before.current # <<>> /\ after.current # <<>>
             /\ after.current[1].columns = before.current[1].columns

\* Every line the loop has read of the lines ls took the step given
EveryStep(ls, run, Step(_, _, _)) ==
    \A i \in 1..Len(ls) : run[i].result = <<>> => Step(run[i], ls[i], run[i + 1])

\* C22: before the first header of a dump the markers '  Indexes:' and
\* '  Foreign Keys:', and every other line that is not a header, leave the
\* finished tables, the table in progress and the section as they are; the
\* section leaves Columns only on a marker and comes back to Columns only on
\* a header, so that a line '  - ...' after a marker of a table is never
\* added to the columns of that table.
C22_ModeMachine ==
    LegacyMetadataDone =>
        /\ EveryStep(lines(LegacyDumpText), MetaRun(lines(LegacyDumpText)), ModeStep)
        /\ \A p \in PrintedNoisyDumps :
              (p.dump.section # "Columns" /\ LegacyDumpText = p.text) =>
                 MetadataAnswer = Ok(json_metadata([tables |-> <<TableOf(p.dump.table)>>]))

\* A column line after the marker of the indexes and after the index: the
\* table keeps its one column
C22_Witness ==
    /\ LegacyMetadataDone
    /\ LegacyDumpText =
         <<"T","a","b","l","e"," ","t"," ","(","2"," ","r","o","w","(","s",")",")","\n"," "," ","-"," ","i","d"," ","I","N","T","\n"," "," ","I","n","d","e","x","e","s",":","\n"," "," ","-"," ","l","a","t","e"," ","I","N","T","\n"," "," "," "," ","-"," ","i","x","_","i","d"," ","(","i","d",")"," ","U","N","I","Q","U","E","\n"," "," ","-"," ","l","a","t","e"," ","I","N","T","\n">>
    /\ MetadataAnswer =
         Ok(<<"{","\"","t","a","b","l","e","s","\"",":","[","{","\"","n","a","m","e","\"",":","\"","t","\"",",","\"","r","o","w","C","o","u","n","t","\"",":","2",",","\"","c","o","l","u","m","n","s","\"",":","[","{","\"","n","a","m","e","\"",":","\"","i","d","\"",",","\"","t","y","p","e","\"",":","\"","I","N","T","\"",",","\"","n","o","t","N","u","l","l","\"",":","f","a","l","s","e",",","\"","p","k","\"",":","f","a","l","s","e","}","]",",","\"","i","n","d","e","x","e","s","\"",":","[","{","\"","n","a","m","e","\"",":","\"","i","x","_","i","d","\"",",","\"","c","o","l","u","m","n","s","\"",":","[","\"","i","d","\"","]",",","\"","u","n","i","q","u","e","\"",":","t","r","u","e","}","]","}","]","}">>)

\* Every dump of one table with a column 'id' and its clauses, with its text
PrintedClauseColumns ==
    {[column |-> c,
      text |-> <<"T","a","b","l","e"," ","t"," ","(","2"," ","r","o","w","(","s",")",")","\n"," "," ","-"," ","i","d">> \o c.type \o flatten(c.clauses) \o <<"\n">>] :
        c \in ClauseColumns}

IsColumnMarker(clause) == clause \in {<<" ","N","O","T"," ","N","U","L","L">>, <<" ","P","R","I","M","A","R","Y"," ","K","E","Y">>}

\* The clauses that come before the first marker
RECURSIVE BeforeMarkers(_)
BeforeMarkers(clauses) ==
    IF clauses = <<>> \/ IsColumnMarker(Head(clauses)) THEN <<>>
    ELSE <<Head(clauses)>> \o BeforeMarkers(Tail(clauses))

\* The clauses without the first occurrence of the marker
RECURSIVE WithoutFirst(_, _)
WithoutFirst(clauses, marker) ==
    IF clauses = <<>> THEN <<>>
    ELSE IF Head(clauses) = marker THEN Tail(clauses)
    ELSE <<Head(clauses)>> \o WithoutFirst(Tail(clauses), marker)

\* The answer of metadata for the column c of table 't', when `after` is
\* what is left after the name 'id' once the markers are dealt with: an
\* error when nothing is left, and else the type that follows the space
ColumnAnswered(c, after) ==
    IF after = <<>> THEN ~MetadataAnswer.ok
    ELSE MetadataAnswer =
            Ok(OneColumnSnapshot(<<"i","d">>, Tail(after),
                                 \E i \in 1..Len(c.clauses) : c.clauses[i] = <<" ","N","O","T"," ","N","U","L","L">>,
                                 \E i \in 1..Len(c.clauses) : c.clauses[i] = <<" ","P","R","I","M","A","R","Y"," ","K","E","Y">>))

\* C23, as stated: only the first ' NOT NULL' and the first ' PRIMARY KEY'
\* are taken out of a column line before it is split at its first space, so
\* that the declared type is all that follows the first space without those
\* two markers, the text after a marker included; a line left without a
\* space fails.
C23_AsStated ==
    LegacyMetadataDone =>
        \A p \in PrintedClauseColumns :
            LegacyDumpText = p.text =>
                ColumnAnswered(p.column,
                    p.column.type
                    \o flatten(WithoutFirst(WithoutFirst(p.column.clauses, <<" ","N","O","T"," ","N","U","L","L">>),
                                            <<" ","P","R","I","M","A","R","Y"," ","K","E","Y">>)))

\* C23, amended: a column line is cut at its first ' NOT NULL' and what is
\* left at its first ' PRIMARY KEY' before it is split at its first space, so
\* that the declared type is what lies between the first space and the
\* first marker, and the text after a marker is no part of it; a line with
\* no space before its first marker fails.
C23_CutAtFirstMarker ==
    LegacyMetadataDone =>
        \A p \in PrintedClauseColumns :
            LegacyDumpText = p.text =>
                ColumnAnswered(p.column,
                               p.column.type \o flatten(BeforeMarkers(p.column.clauses)))

\* A default after ' NOT NULL': the type is 'INT'
C23_Witness ==
    /\ LegacyMetadataDone
    /\ LegacyDumpText = <<"T","a","b","l","e"," ","t"," ","(","2"," ","r","o","w","(","s",")",")","\n"," "," ","-"," ","i","d"," ","I","N","T"," ","N","O","T"," ","N","U","L","L"," ","D","E","F","A","U","L","T"," ","0","\n">>
    /\ MetadataAnswer = Ok(OneColumnSnapshot(<<"i","d">>, <<"I","N","T">>, TRUE, FALSE))

\* One line of the loop as C24 has it: a blank line, or a line that is no
\* header, no marker, not the line 'No tables defined' and does not start
\* with the prefix of the section, leaves the state of the loop as it is,
\* without a result
SkippedStep(before, line, after) ==
    (\/ trim_end(line) = <<>>
     \/ /\ ~IsHeaderLine(line) /\ ~IsMarkerLine(line)
        /\ trim_end(line) # <<"N","o"," ","t","a","b","l","e","s"," ","d","e","f","i","n","e","d">>
        /\ ~starts_with(trim_end(line),
                        IF before.section = "Columns" THEN <<" "," ","-"," ">> ELSE <<" "," "," "," ","-"," ">>))
    => /\ SameTablesAndMode(before, after)
       /\ after.result = <<>>

\* C24: a blank line, and a line that is not a header, a marker or the line
\* 'No tables defined' and does not start with the prefix of the current
\* section ('  - ' for the columns, '    - ' for the indexes and the foreign
\* keys), leaves the finished tables, the table in progress and the section
\* as they are and never fails the parse.
C24_SkippedLines ==
    LegacyMetadataDone =>
        /\ EveryStep(lines(LegacyDumpText), MetaRun(lines(LegacyDumpText)), SkippedStep)
        /\ \A p \in PrintedNoisyDumps :
              (p.dump.section # "None" /\ LegacyDumpText = p.text) =>
                 MetadataAnswer = Ok(json_metadata([tables |-> <<TableOf(p.dump.table)>>]))

\* An entry of four spaces and a dash without columns, before and after the
\* column of a table: skipped in the section of the columns
C24_Witness ==
    /\ LegacyMetadataDone
    /\ LegacyDumpText = <<"T","a","b","l","e"," ","t"," ","(","2"," ","r","o","w","(","s",")",")","\n"," "," "," "," ","-"," ","i","x","_","i","d","\n"," "," ","-"," ","i","d"," ","I","N","T","\n"," "," "," "," ","-"," ","i","x","_","i","d","\n">>
    /\ MetadataAnswer = Ok(OneColumnSnapshot(<<"i","d">>, <<"I","N","T">>, FALSE, FALSE))

-----------------------------------------------------------------------------
(* The destination file of export_csv, under Spec *)

\* Thread t takes the step that ends export_csv
ExportEnds(t) ==
    /\ req[t].op = "export_csv"
    /\ pc[t] # "done" /\ pc'[t] = "done"

\* The call of thread t has run the tool to a successful end
CallSucceeded(t) ==
    /\ invs[t] # <<>>
    /\ Cur(t).outcome = "ok"
    /\ Cur(t).captured # <<>> /\ Cur(t).captured[1].success

\* C25: export_csv writes the destination file only after its call of the
\* tool with the format csv has ended successfully: when the statement is
\* refused or the call fails (tool not found, spawn that fails, timeout, exit
\* status of failure) the file is neither created nor changed, and when
\* export_csv succeeds the file holds the standard output of the call.
C25_FileWrittenAfterTheCall ==
    [][/\ (destFile' # destFile) => \E t \in Threads : ExportEnds(t) /\ CallSucceeded(t)
       /\ \A t \in Threads :
             (ExportEnds(t) /\ result'[t][1].ok) =>
                /\ CallSucceeded(t)
                /\ destFile' = <<Returned(t).val[1].stdout>>
                /\ (\A i \in 1..Len(Cur(t).captured[1].stdout) :
                       Cur(t).captured[1].stdout[i] # "0xFF")
                   => destFile' = <<Cur(t).captured[1].stdout>>]_vars

\* export_csv has succeeded and the file holds the csv the tool printed
C25_Witness ==
    \E t \in Threads :
        /\ pc[t] = "done" /\ req[t].op = "export_csv"
        /\ result[t] = <<Ok(<<>>)>>
        /\ Len(invs[t]) = 1 /\ invs[t][1].outcome = "ok"
        /\ invs[t][1].captured[1].stdout = <<"i","d",",","n","m","\n","1",",","a","\n">>
        /\ destFile = << <<"i","d",",","n","m","\n","1",",","a","\n">> >>

====
